----------------------------- MODULE SseProofs -----------------------------
(***************************************************************************)
(* Theorems about the registry of event streams, for any devices,          *)
(* connections, threads and number of events.                              *)
(*                                                                         *)
(* The argument is the lock's: an entry is replaced or removed in one      *)
(* step, so a connection is closed only after its entry is gone, by the    *)
(* thread that replaced it (Detached) or by its own generator.             *)
(*                                                                         *)
(* The order of a connection's events rests on a second invariant (OInv).  *)
(* Its line, taken \o queue \o ready, holds the events 1 to posted once    *)
(* each and in order, whatever markers lie between.  An event goes to the  *)
(* queue directly only while no callback carries an event (NoneCrosses):   *)
(* that is what it would take for one to overtake another.                 *)
(***************************************************************************)
EXTENDS Sse, SequenceTheorems, TLAPS

USE SseAssumption DEF SseAssumption

-----------------------------------------------------------------------------
(* Worker threads *)

LEMMA RegisterKeeps ==
    ASSUME IInv, NEW t \in Threads, NEW d \in Devices, Register(t, d)
    PROVE  IInv'
PROOF
<1>1. PICK c \in Conns :
        /\ Free(c)
        /\ registry' = [registry EXCEPT ![d] = c]
        /\ owner' = [owner EXCEPT ![c] = d]
        /\ closed' = [closed EXCEPT ![c] = FALSE]
        /\ stream' = [stream EXCEPT ![c] = "opened"]
        /\ queue' = [queue EXCEPT ![c] = <<>>]
        /\ ready' = [ready EXCEPT ![c] = <<>>]
        /\ rung' = [rung EXCEPT ![c] = FALSE]
        /\ posted' = [posted EXCEPT ![c] = 0]
        /\ taken' = [taken EXCEPT ![c] = <<>>]
    BY DEF Register
<1>2. thread[t] = Idle /\ thread' = [thread EXCEPT ![t] = Replaced(t, d)]
    BY DEF Register
<1>3. \A e \in Devices : registry[e] # c
    BY <1>1 DEF Free, IInv, RegisteredIsOpen
<1>4. \A u \in Threads : thread[u].conn # c
    BY <1>1 DEF Free
<1>5. /\ registry[d] = Nil => thread'[t] = Idle
      /\ registry[d] # Nil =>
            thread'[t] = [pc |-> "replacing", conn |-> registry[d], direct |-> FALSE]
    BY <1>2 DEF Replaced, IInv, TypeOK
<1>6. \A u \in Threads : u # t => thread'[u] = thread[u]
    BY <1>2 DEF IInv, TypeOK
<1>7. registry[d] \in Conns \union {Nil}
    BY DEF IInv, TypeOK
<1>8. TypeOK'
    <2>1. thread' \in [Threads -> ThreadState]
        BY <1>2, <1>5, <1>6, <1>7 DEF IInv, TypeOK, Idle, ThreadState, Replaced
    <2>2. QED
        BY <1>1, <2>1 DEF IInv, TypeOK, StreamState
<1>9. Detached'
    <2> SUFFICES ASSUME NEW u \in Threads, thread'[u].pc = "replacing"
                 PROVE  /\ thread'[u].conn \in Conns
                        /\ registry'[owner'[thread'[u].conn]] # thread'[u].conn
        BY DEF Detached
    <2>1. CASE u = t
        <3>1. registry[d] # Nil /\ thread'[u].conn = registry[d]
            BY <2>1, <1>5 DEF Idle
        <3>2. registry[d] # c /\ owner[registry[d]] = d /\ registry[d] \in Conns
            BY <3>1, <1>3, <1>7 DEF IInv, RegisteredIsOpen
        <3>3. owner'[registry[d]] = d /\ registry'[d] = c
            BY <3>2, <1>1 DEF IInv, TypeOK
        <3>4. QED BY <3>1, <3>2, <3>3
    <2>2. CASE u # t
        <3>1. thread'[u].conn = thread[u].conn /\ thread[u].pc = "replacing"
            BY <2>2, <1>6
        <3>2. PICK x \in Conns : x = thread[u].conn /\ registry[owner[x]] # x /\ x # c
            BY <3>1, <1>4 DEF IInv, Detached
        <3>3. owner'[x] = owner[x] /\ registry'[owner[x]] \in {c, registry[owner[x]]}
            BY <3>2, <1>1 DEF IInv, TypeOK
        <3>4. QED BY <3>1, <3>2, <3>3
    <2>3. QED BY <2>1, <2>2
<1>10. OnePublisher'
    <2>1. \A u \in Threads : thread'[u].pc # "publishing"
        BY <1>5, <1>6 DEF Register, LockFree, Idle
    <2>2. \A u \in Threads : thread'[u].pc = "closing" => thread'[u].conn \in Conns
        BY <1>5, <1>6 DEF IInv, OnePublisher, Idle
    <2>3. QED BY <2>1, <2>2 DEF OnePublisher
<1>11. RegisteredIsOpen'
    BY <1>1, <1>3 DEF IInv, TypeOK, RegisteredIsOpen
<1>12. OpenIsRegistered'
    <2> SUFFICES ASSUME NEW x \in Conns, Running(x)', ~closed'[x]
                 PROVE  \/ registry'[owner'[x]] = x
                        \/ \E u \in Threads : thread'[u].pc = "replacing" /\ thread'[u].conn = x
        BY DEF OpenIsRegistered
    <2>1. CASE x = c
        BY <2>1, <1>1 DEF IInv, TypeOK
    <2>2. CASE x # c /\ registry[owner[x]] = x
        <3>1. CASE owner[x] = d
            BY <2>2, <3>1, <1>5
        <3>2. CASE owner[x] # d
            BY <2>2, <3>2, <1>1 DEF IInv, TypeOK
        <3>3. QED BY <3>1, <3>2
    <2>3. CASE x # c /\ registry[owner[x]] # x
        <3>1. Running(x) /\ ~closed[x]
            BY <2>3, <1>1 DEF Running, IInv, TypeOK
        <3>2. PICK u \in Threads : thread[u].pc = "replacing" /\ thread[u].conn = x
            BY <2>3, <3>1 DEF IInv, OpenIsRegistered
        <3>3. u # t
            BY <3>2, <1>2 DEF Idle
        <3>4. QED BY <3>2, <3>3, <1>6
    <2>4. QED BY <2>1, <2>2, <2>3
<1>13. QED BY <1>8, <1>9, <1>10, <1>11, <1>12 DEF IInv

LEMMA CloseReplacedKeeps ==
    ASSUME IInv, NEW t \in Threads, CloseReplaced(t)
    PROVE  IInv'
PROOF
<1> DEFINE c == thread[t].conn
<1>1. c \in Conns /\ registry[owner[c]] # c
    BY DEF CloseReplaced, IInv, Detached
<1>2. /\ closed' = [closed EXCEPT ![c] = TRUE]
      /\ UNCHANGED <<registry, owner, stream, queue, ready, rung, posted, taken>>
    BY DEF CloseReplaced
<1>3. \A u \in Threads : u # t => thread'[u] = thread[u]
    BY DEF CloseReplaced, IInv, TypeOK
<1>4. thread'[t] = Idle \/ (thread'[t].pc = "closing" /\ thread'[t].conn = c)
    BY DEF CloseReplaced, IInv, TypeOK, ThreadState
<1>5. TypeOK'
    <2>1. Unbound(c) \in BOOLEAN
        BY DEF Unbound
    <2>2. thread' \in [Threads -> ThreadState]
        BY <2>1 DEF CloseReplaced, IInv, TypeOK, ThreadState, Idle
    <2>3. QED BY <1>1, <1>2, <2>2 DEF IInv, TypeOK
<1>6. Detached'
    BY <1>2, <1>3, <1>4 DEF IInv, Detached, Idle
<1>7. OnePublisher'
    BY <1>1, <1>2, <1>3, <1>4 DEF IInv, OnePublisher, Idle
<1>8. RegisteredIsOpen'
    BY <1>1, <1>2 DEF IInv, TypeOK, RegisteredIsOpen
<1>9. OpenIsRegistered'
    <2> SUFFICES ASSUME NEW x \in Conns, Running(x)', ~closed'[x]
                 PROVE  \/ registry'[owner'[x]] = x
                        \/ \E u \in Threads : thread'[u].pc = "replacing" /\ thread'[u].conn = x
        BY DEF OpenIsRegistered
    <2>1. x # c /\ ~closed[x] /\ Running(x)
        BY <1>1, <1>2 DEF IInv, TypeOK, Running
    <2>2. CASE registry[owner[x]] = x
        BY <2>2, <1>2
    <2>3. CASE registry[owner[x]] # x
        <3>1. PICK u \in Threads : thread[u].pc = "replacing" /\ thread[u].conn = x
            BY <2>1, <2>3 DEF IInv, OpenIsRegistered
        <3>2. QED BY <2>1, <3>1, <1>3
    <2>4. QED BY <2>2, <2>3
<1>10. QED BY <1>5, <1>6, <1>7, <1>8, <1>9 DEF IInv

\* The registry, its connections and their states as they were, and no thread
\* entering or leaving "replacing": the two invariants stand.
LEMMA StandsStill ==
    ASSUME IInv, UNCHANGED <<registry, owner, closed, stream>>,
           NEW t \in Threads, thread[t].pc # "replacing", thread'[t].pc # "replacing",
           \A u \in Threads : u # t => thread'[u] = thread[u]
    PROVE  Detached' /\ RegisteredIsOpen' /\ OpenIsRegistered'
PROOF
<1>1. Detached'
    BY DEF IInv, Detached
<1>2. RegisteredIsOpen'
    BY DEF IInv, RegisteredIsOpen
<1>3. OpenIsRegistered'
    BY DEF IInv, OpenIsRegistered, Running
<1>4. QED BY <1>1, <1>2, <1>3

LEMMA PublishStartKeeps ==
    ASSUME IInv, NEW t \in Threads, NEW d \in Devices, PublishStart(t, d)
    PROVE  IInv'
PROOF
<1>1. /\ thread[t] = Idle
      /\ \A u \in Threads : thread[u].pc # "publishing"
    BY DEF PublishStart, MayPublish, LockFree
<1>2. /\ registry[d] \in Conns /\ posted[registry[d]] < MaxPosts
      /\ UNCHANGED <<registry, owner, closed, stream, queue, ready, rung, posted, taken>>
    BY DEF PublishStart, IInv, TypeOK
<1>3. Unbound(registry[d]) \in BOOLEAN
    BY DEF Unbound
<1>4. /\ thread'[t] = [pc |-> "publishing", conn |-> registry[d],
                       direct |-> Unbound(registry[d])]
      /\ \A u \in Threads : u # t => thread'[u] = thread[u]
    BY DEF PublishStart, IInv, TypeOK
<1>5. TypeOK'
    <2>1. thread' \in [Threads -> ThreadState]
        BY <1>2, <1>3 DEF PublishStart, IInv, TypeOK, ThreadState
    <2>2. QED BY <1>2, <2>1 DEF IInv, TypeOK
<1>6. OnePublisher'
    BY <1>1, <1>2, <1>4 DEF IInv, OnePublisher
<1>7. Detached' /\ RegisteredIsOpen' /\ OpenIsRegistered'
    BY <1>1, <1>2, <1>4, StandsStill DEF Idle
<1>8. QED BY <1>5, <1>6, <1>7 DEF IInv

LEMMA PutKeeps ==
    ASSUME IInv, NEW t \in Threads, Put(t)
    PROVE  IInv'
PROOF
<1> DEFINE c == thread[t].conn
           ev == thread[t].pc = "publishing"
           item == IF ev THEN posted[c] + 1 ELSE Close
<1>1. c \in Conns /\ thread[t].pc \in {"closing", "publishing"}
    BY DEF Put, IInv, OnePublisher
<1>2. /\ posted' = [posted EXCEPT ![c] = IF ev THEN @ + 1 ELSE @]
      /\ queue' = IF thread[t].direct
                  THEN [queue EXCEPT ![c] = Append(@, item)] ELSE queue
      /\ ready' = IF thread[t].direct
                  THEN ready ELSE [ready EXCEPT ![c] = Append(@, item)]
      /\ thread' = [thread EXCEPT ![t] = Idle]
      /\ UNCHANGED <<registry, owner, closed, stream, rung, taken>>
    BY DEF Put
<1>3. posted[c] \in 0..MaxPosts /\ (ev => posted[c] < MaxPosts)
    BY <1>1 DEF IInv, TypeOK, OnePublisher
<1>4. item \in Event \union {Close}
    BY <1>3 DEF Event
<1>5. /\ thread'[t] = Idle
      /\ \A u \in Threads : u # t => thread'[u] = thread[u]
    BY <1>2 DEF IInv, TypeOK
<1>6. TypeOK'
    <2>1. posted' \in [Conns -> 0..MaxPosts]
        BY <1>1, <1>2, <1>3 DEF IInv, TypeOK
    <2>2. Append(queue[c], item) \in Seq(Event \union {Close})
          /\ Append(ready[c], item) \in Seq(Event \union {Close})
        BY <1>1, <1>4 DEF IInv, TypeOK
    <2>3. queue' \in [Conns -> Seq(Event \union {Close})]
          /\ ready' \in [Conns -> Seq(Event \union {Close})]
        BY <1>1, <1>2, <2>2 DEF IInv, TypeOK
    <2>4. thread' \in [Threads -> ThreadState]
        BY <1>2 DEF IInv, TypeOK, ThreadState, Idle
    <2>5. QED BY <1>2, <2>1, <2>3, <2>4 DEF IInv, TypeOK
<1>7. OnePublisher'
    <2>1. \A u \in Threads : thread'[u].pc = "publishing" => u # t /\ ~ev
        BY <1>5 DEF IInv, OnePublisher, Idle
    <2>2. \A u \in Threads : thread'[u].pc = "publishing" =>
                posted'[thread'[u].conn] < MaxPosts
        <3> SUFFICES ASSUME NEW u \in Threads, thread'[u].pc = "publishing"
                     PROVE  posted'[thread'[u].conn] < MaxPosts
            OBVIOUS
        <3>1. posted' = posted
            BY <2>1, <1>1, <1>2 DEF IInv, TypeOK
        <3>2. QED BY <2>1, <3>1, <1>5 DEF IInv, OnePublisher
    <2>3. QED BY <1>5, <2>1, <2>2 DEF IInv, OnePublisher, Idle
<1>8. Detached' /\ RegisteredIsOpen' /\ OpenIsRegistered'
    BY <1>1, <1>2, <1>5, StandsStill DEF Idle
<1>9. QED BY <1>6, <1>7, <1>8 DEF IInv

-----------------------------------------------------------------------------
(* The event loop *)

\* A step of the loop that neither lists nor closes, and keeps running streams
\* registered: they may start, wait, wake or stop running.
LEMMA StreamStepKeeps ==
    ASSUME IInv, NEW c \in Conns, NEW s \in StreamState,
           stream' = [stream EXCEPT ![c] = s],
           s \notin {"unused", "unlisted", "done"},
           s \in Attached \union {"opened"} => Running(c),
           UNCHANGED <<registry, owner, closed, posted, thread>>
    PROVE  Detached' /\ OnePublisher' /\ RegisteredIsOpen' /\ OpenIsRegistered'
PROOF
<1>1. Detached' /\ OnePublisher'
    BY DEF IInv, Detached, OnePublisher
<1>2. RegisteredIsOpen'
    BY DEF IInv, TypeOK, RegisteredIsOpen
<1>3. OpenIsRegistered'
    <2>1. \A x \in Conns : Running(x)' => Running(x)
        BY DEF IInv, TypeOK, Running
    <2>2. QED BY <2>1 DEF IInv, OpenIsRegistered
<1>4. QED BY <1>1, <1>2, <1>3

LEMMA StreamKeeps ==
    ASSUME IInv, NEW c \in Conns,
           \/ StreamStart(c) \/ StreamStop(c) \/ StreamWait(c) \/ StreamTake(c)
           \/ StreamHeartbeat(c) \/ Disconnect(c)
    PROVE  IInv'
PROOF
<1>1. CASE StreamStart(c) \/ StreamStop(c) \/ StreamWait(c) \/ StreamHeartbeat(c)
    <2>1. PICK s \in {"top", "leaving", "asleep"} :
            /\ stream' = [stream EXCEPT ![c] = s]
            /\ s # "leaving" => Running(c)
        BY <1>1 DEF StreamStart, StreamStop, StreamWait, StreamHeartbeat, Beats,
                    Running, Attached
    <2>2. UNCHANGED <<registry, owner, closed, queue, ready, posted, taken, thread>>
        BY <1>1 DEF StreamStart, StreamStop, StreamWait, StreamHeartbeat
    <2>3. TypeOK'
        BY <1>1, <2>1, <2>2 DEF IInv, TypeOK, StreamStart, StreamStop, StreamWait,
                    StreamHeartbeat, StreamState, Attached, Leaving
    <2>4. s \in StreamState /\ (s \in Attached \union {"opened"} => Running(c))
        BY <2>1 DEF StreamState, Attached, Leaving
    <2>5. QED
        BY <2>1, <2>2, <2>3, <2>4, StreamStepKeeps DEF IInv
<1>2. CASE StreamTake(c)
    <2>1. PICK s \in {"top", "leaving"} : stream' = [stream EXCEPT ![c] = s]
        BY <1>2 DEF StreamTake
    <2>2. /\ Running(c) /\ queue[c] # <<>>
          /\ queue' = [queue EXCEPT ![c] = Tail(@)]
          /\ UNCHANGED <<registry, owner, closed, ready, posted, thread>>
        BY <1>2 DEF StreamTake, Running, Attached
    <2>3. Head(queue[c]) \in Event \union {Close} /\ Tail(queue[c]) \in Seq(Event \union {Close})
        BY <2>2 DEF IInv, TypeOK
    <2>4. taken' \in [Conns -> Seq(Event)]
        <3>1. Head(queue[c]) # Close => Append(taken[c], Head(queue[c])) \in Seq(Event)
            BY <2>3 DEF IInv, TypeOK
        <3>2. QED BY <1>2, <3>1 DEF StreamTake, IInv, TypeOK
    <2>5. TypeOK'
        BY <1>2, <2>1, <2>2, <2>3, <2>4
            DEF StreamTake, IInv, TypeOK, StreamState, Attached, Leaving
    <2>6. s \in StreamState /\ s \notin {"unused", "unlisted", "done"}
        BY <2>1 DEF StreamState, Attached, Leaving
    <2>7. QED
        BY <2>1, <2>2, <2>5, <2>6, StreamStepKeeps DEF IInv
<1>3. CASE Disconnect(c)
    <2>1. PICK s \in {"lost", "leaving"} : stream' = [stream EXCEPT ![c] = s]
        BY <1>3 DEF Disconnect
    <2>2. UNCHANGED <<registry, owner, closed, queue, ready, posted, taken, thread>>
        BY <1>3 DEF Disconnect
    <2>3. s \in StreamState /\ s \notin {"unused", "unlisted", "done"}
          /\ s \notin Attached \union {"opened"}
        BY <2>1 DEF StreamState, Attached, Leaving
    <2>4. TypeOK'
        BY <1>3, <2>1, <2>2, <2>3 DEF Disconnect, IInv, TypeOK
    <2>5. QED
        BY <2>1, <2>2, <2>3, <2>4, StreamStepKeeps DEF IInv
<1>4. QED BY <1>1, <1>2, <1>3

LEMMA RunReadyKeeps ==
    ASSUME IInv, NEW c \in Conns, RunReady(c)
    PROVE  IInv'
PROOF
<1>1. /\ ready[c] # <<>>
      /\ queue' = [queue EXCEPT ![c] = Append(@, Head(ready[c]))]
      /\ ready' = [ready EXCEPT ![c] = Tail(@)]
      /\ rung' = [rung EXCEPT ![c] = stream[c] = "asleep"]
      /\ UNCHANGED <<registry, owner, closed, stream, posted, taken, thread>>
    BY DEF RunReady
<1>2. Head(ready[c]) \in Event \union {Close} /\ Tail(ready[c]) \in Seq(Event \union {Close})
    BY <1>1 DEF IInv, TypeOK
<1>3. Append(queue[c], Head(ready[c])) \in Seq(Event \union {Close})
    BY <1>2 DEF IInv, TypeOK
<1>4. rung' \in [Conns -> BOOLEAN]
    BY <1>1 DEF IInv, TypeOK
<1>5. TypeOK'
    BY <1>1, <1>2, <1>3, <1>4 DEF IInv, TypeOK
<1>6. Detached' /\ OnePublisher' /\ RegisteredIsOpen' /\ OpenIsRegistered'
    BY <1>1 DEF IInv, Detached, OnePublisher, RegisteredIsOpen, OpenIsRegistered, Running
<1>7. QED BY <1>5, <1>6 DEF IInv

LEMMA UnregisterKeeps ==
    ASSUME IInv, NEW c \in Conns, Unregister(c)
    PROVE  IInv'
PROOF
<1>1. /\ stream[c] = "leaving"
      /\ stream' = [stream EXCEPT ![c] = "unlisted"]
      /\ UNCHANGED <<owner, closed, queue, ready, rung, posted, taken, thread>>
    BY DEF Unregister
<1>2. \A d \in Devices : registry'[d] = IF registry[d] = c THEN Nil ELSE registry[d]
    <2>1. \A d \in Devices : registry[d] = c => d = owner[c]
        BY DEF IInv, RegisteredIsOpen
    <2>2. QED BY <2>1 DEF Unregister, Delisted, IInv, TypeOK
<1>3. TypeOK'
    <2>1. registry' \in [Devices -> Conns \union {Nil}]
        BY DEF Unregister, Delisted, IInv, TypeOK
    <2>2. QED BY <1>1, <2>1 DEF IInv, TypeOK, StreamState, Leaving
<1>4. Detached'
    BY <1>1, <1>2 DEF IInv, TypeOK, Detached
<1>5. OnePublisher'
    BY <1>1 DEF IInv, OnePublisher
<1>6. RegisteredIsOpen'
    BY <1>1, <1>2 DEF IInv, TypeOK, RegisteredIsOpen
<1>7. OpenIsRegistered'
    <2> SUFFICES ASSUME NEW x \in Conns, Running(x)', ~closed'[x]
                 PROVE  \/ registry'[owner'[x]] = x
                        \/ \E u \in Threads : thread'[u].pc = "replacing" /\ thread'[u].conn = x
        BY DEF OpenIsRegistered
    <2>1. x # c /\ Running(x) /\ ~closed[x]
        BY <1>1 DEF IInv, TypeOK, Running, Attached
    <2>2. QED BY <1>1, <1>2, <2>1 DEF IInv, TypeOK, OpenIsRegistered
<1>8. QED BY <1>3, <1>4, <1>5, <1>6, <1>7 DEF IInv

LEMMA CloseOwnKeeps ==
    ASSUME IInv, NEW c \in Conns, CloseOwn(c)
    PROVE  IInv'
PROOF
<1>1. /\ stream[c] = "unlisted"
      /\ closed' = [closed EXCEPT ![c] = TRUE]
      /\ ready' = IF closed[c] THEN ready ELSE [ready EXCEPT ![c] = Append(@, Close)]
      /\ stream' = [stream EXCEPT ![c] = "done"]
      /\ UNCHANGED <<registry, owner, queue, rung, posted, taken, thread>>
    BY DEF CloseOwn
<1>2. \A d \in Devices : registry[d] # c
    BY <1>1 DEF IInv, RegisteredIsOpen
<1>3. TypeOK'
    <2>1. Append(ready[c], Close) \in Seq(Event \union {Close})
        BY DEF IInv, TypeOK
    <2>2. QED BY <1>1, <2>1 DEF IInv, TypeOK, StreamState
<1>4. Detached' /\ OnePublisher'
    BY <1>1 DEF IInv, Detached, OnePublisher
<1>5. RegisteredIsOpen'
    BY <1>1, <1>2 DEF IInv, TypeOK, RegisteredIsOpen
<1>6. OpenIsRegistered'
    BY <1>1 DEF IInv, TypeOK, OpenIsRegistered, Running, Attached
<1>7. QED BY <1>3, <1>4, <1>5, <1>6 DEF IInv

-----------------------------------------------------------------------------
(* Order.  What a connection holds is one line: what its generator took,   *)
(* its queue, and the callbacks not yet run.                               *)

Item == Event \union {Close}

\* s holds the events 1 to n, each once and in order, among markers.
InLine(s, n) ==
    /\ \A i, j \in DOMAIN s : i < j /\ s[i] # Close /\ s[j] # Close => s[i] < s[j]
    /\ \A e \in Event : e <= n <=> \E i \in DOMAIN s : s[i] = e

NoEvent(s) == \A i \in DOMAIN s : s[i] = Close

LEMMA EventsAreUnmarked == \A e \in Event : e # Close /\ e \in Nat
  BY DEF Event

\* Markers between events do not count.
LEMMA MarkerBetween ==
    ASSUME NEW s \in Seq(Item), NEW r \in Seq(Item), NEW n \in Nat
    PROVE  InLine(Append(s, Close) \o r, n) <=> InLine(s \o r, n)
<1> DEFINE a == Append(s, Close) \o r
           b == s \o r
           Was(i) == IF i <= Len(s) THEN i ELSE i + 1
<1>1. /\ Len(s) \in Nat /\ Len(r) \in Nat
      /\ DOMAIN b = 1 .. Len(s) + Len(r)
      /\ \A i \in 1 .. Len(s) + Len(r) : b[i] = IF i <= Len(s) THEN s[i] ELSE r[i - Len(s)]
  BY ConcatProperties, LenProperties
<1>2. /\ Append(s, Close) \in Seq(Item) /\ Len(Append(s, Close)) = Len(s) + 1
      /\ \A i \in 1 .. Len(s) : Append(s, Close)[i] = s[i]
      /\ Append(s, Close)[Len(s) + 1] = Close
  BY AppendProperties DEF Item
<1>3. /\ DOMAIN a = 1 .. Len(s) + 1 + Len(r)
      /\ \A i \in 1 .. Len(s) : a[i] = s[i]
      /\ a[Len(s) + 1] = Close
      /\ \A i \in 1 .. Len(s) + 1 + Len(r) : i > Len(s) + 1 => a[i] = r[i - Len(s) - 1]
  BY <1>1, <1>2, ConcatProperties, LenProperties
<1>4. \A i \in DOMAIN b : Was(i) \in DOMAIN a /\ b[i] = a[Was(i)]
  BY <1>1, <1>3
<1>5. \A i, j \in DOMAIN b : i < j <=> Was(i) < Was(j)
  BY <1>1
<1>6. ASSUME NEW i \in DOMAIN a, a[i] # Close
      PROVE  \E j \in DOMAIN b : i = Was(j)
  <2>1. i # Len(s) + 1
    BY <1>3, <1>6
  <2>2. CASE i <= Len(s)
    BY <1>1, <1>3, <2>2
  <2>3. CASE i > Len(s) + 1
    <3>1. i - 1 \in DOMAIN b /\ Was(i - 1) = i
      BY <1>1, <1>3, <2>3
    <3> QED
      BY <3>1
  <2> QED
    BY <1>1, <1>3, <2>1, <2>2, <2>3
<1> HIDE DEF a, b, Was
<1>7. \A i, j \in DOMAIN b : b[i] # Close /\ b[j] # Close =>
          (b[i] < b[j] <=> a[Was(i)] < a[Was(j)])
  BY <1>4
<1>8. (\A i, j \in DOMAIN a : i < j /\ a[i] # Close /\ a[j] # Close => a[i] < a[j])
      <=> (\A i, j \in DOMAIN b : i < j /\ b[i] # Close /\ b[j] # Close => b[i] < b[j])
  BY <1>4, <1>5, <1>6
<1>9. \A e \in Event : (\E i \in DOMAIN a : a[i] = e) <=> (\E i \in DOMAIN b : b[i] = e)
  BY <1>4, <1>6, EventsAreUnmarked
<1> QED
  BY <1>8, <1>9 DEF InLine, a, b

\* An event more, with only markers behind it.
LEMMA EventBeforeMarkers ==
    ASSUME NEW s \in Seq(Item), NEW r \in Seq(Item), NEW n \in Nat, n + 1 \in Event,
           InLine(s \o r, n), NoEvent(r)
    PROVE  InLine(Append(s, n + 1) \o r, n + 1)
<1> DEFINE a == s \o r
           b == Append(s, n + 1) \o r
<1>1. /\ Len(s) \in Nat /\ Len(r) \in Nat /\ DOMAIN r = 1 .. Len(r)
      /\ DOMAIN a = 1 .. Len(s) + Len(r)
      /\ \A i \in 1 .. Len(s) + Len(r) : a[i] \in Item
      /\ \A i \in 1 .. Len(s) : a[i] = s[i]
      /\ \A i \in 1 .. Len(r) : a[Len(s) + i] = r[i]
  BY ConcatProperties, LenProperties
<1>2. /\ n + 1 \in Item /\ Append(s, n + 1) \in Seq(Item) /\ Len(Append(s, n + 1)) = Len(s) + 1
      /\ \A i \in 1 .. Len(s) : Append(s, n + 1)[i] = s[i]
      /\ Append(s, n + 1)[Len(s) + 1] = n + 1
  BY AppendProperties DEF Item
<1>3. /\ DOMAIN b = 1 .. Len(s) + 1 + Len(r)
      /\ \A i \in 1 .. Len(s) : b[i] = a[i]
      /\ b[Len(s) + 1] = n + 1
      /\ \A i \in 1 .. Len(r) : b[Len(s) + 1 + i] = r[i]
  BY <1>1, <1>2, ConcatProperties, LenProperties
<1>4. ASSUME NEW i \in DOMAIN b, b[i] # Close
      PROVE  i <= Len(s) + 1
  <2> SUFFICES ASSUME i > Len(s) + 1 PROVE FALSE
    BY <1>1, <1>3
  <2>1. i - Len(s) - 1 \in 1 .. Len(r)
    BY <1>1, <1>3
  <2> QED
    BY <1>3, <1>4, <2>1, <1>1 DEF NoEvent
<1>5. ASSUME NEW i \in 1 .. Len(s), b[i] # Close
      PROVE  b[i] \in Event /\ b[i] <= n
  <2>1. i \in DOMAIN a /\ a[i] = b[i] /\ a[i] \in Item
    BY <1>1, <1>3
  <2> QED
    BY <1>5, <2>1 DEF Item, InLine
<1>6. \A i, j \in DOMAIN b : i < j /\ b[i] # Close /\ b[j] # Close => b[i] < b[j]
  <2> SUFFICES ASSUME NEW i \in DOMAIN b, NEW j \in DOMAIN b, i < j,
                      b[i] # Close, b[j] # Close
               PROVE  b[i] < b[j]
    OBVIOUS
  <2>1. j <= Len(s) + 1 /\ i \in 1 .. Len(s)
    BY <1>1, <1>3, <1>4
  <2>2. CASE j = Len(s) + 1
    BY <2>1, <2>2, <1>3, <1>5 DEF Event
  <2>3. CASE j # Len(s) + 1
    <3>1. j \in 1 .. Len(s)
      BY <1>1, <1>3, <2>1, <2>3
    <3> QED
      BY <2>1, <3>1, <1>1, <1>3 DEF InLine
  <2> QED
    BY <2>2, <2>3
<1>7. ASSUME NEW e \in Event
      PROVE  e <= n + 1 <=> \E i \in DOMAIN b : b[i] = e
  <2>1. ASSUME NEW i \in DOMAIN b, b[i] = e PROVE e <= n + 1
    BY <1>1, <1>3, <1>4, <1>5, <2>1, EventsAreUnmarked
  <2>2. CASE e = n + 1
    BY <1>1, <1>3, <2>2
  <2>3. ASSUME e <= n PROVE \E i \in DOMAIN b : b[i] = e
    <3>1. PICK i \in DOMAIN a : a[i] = e
      BY <2>3 DEF InLine
    <3>2. i <= Len(s)
      <4> SUFFICES ASSUME i > Len(s) PROVE FALSE
        BY <1>1
      <4>1. i - Len(s) \in 1 .. Len(r)
        BY <1>1
      <4>2. a[i] = r[i - Len(s)]
        BY <1>1, <4>1
      <4> QED
        BY <1>1, <3>1, <4>1, <4>2, EventsAreUnmarked DEF NoEvent
    <3> QED
      BY <1>1, <1>3, <3>1, <3>2
  <2> QED
    BY <2>1, <2>2, <2>3, EventsAreUnmarked
<1> QED
  BY <1>6, <1>7 DEF InLine

\* A head moves from one sequence to the end of the one before.
LEMMA HeadMoves ==
    ASSUME NEW s \in Seq(Item), NEW r \in Seq(Item), r # <<>>
    PROVE  Append(s, Head(r)) \o Tail(r) = s \o r
<1>1. /\ Head(r) \in Item /\ Tail(r) \in Seq(Item) /\ Len(Tail(r)) = Len(r) - 1
      /\ Head(r) = r[1] /\ Len(r) \in Nat \ {0} /\ Len(s) \in Nat
      /\ \A i \in 1 .. Len(r) - 1 : Tail(r)[i] = r[i + 1]
  BY HeadTailProperties, EmptySeq, LenProperties
<1>2. /\ Append(s, Head(r)) \in Seq(Item) /\ Len(Append(s, Head(r))) = Len(s) + 1
      /\ \A i \in 1 .. Len(s) : Append(s, Head(r))[i] = s[i]
      /\ Append(s, Head(r))[Len(s) + 1] = Head(r)
  BY <1>1, AppendProperties
<1>3. /\ Append(s, Head(r)) \o Tail(r) \in Seq(Item) /\ s \o r \in Seq(Item)
      /\ Len(Append(s, Head(r)) \o Tail(r)) = Len(s) + Len(r)
      /\ Len(s \o r) = Len(s) + Len(r)
  BY <1>1, <1>2, ConcatProperties
<1>4. ASSUME NEW i \in 1 .. Len(s) + Len(r)
      PROVE  (Append(s, Head(r)) \o Tail(r))[i] = (s \o r)[i]
  <2>1. (s \o r)[i] = IF i <= Len(s) THEN s[i] ELSE r[i - Len(s)]
    BY ConcatProperties
  <2>2. (Append(s, Head(r)) \o Tail(r))[i] =
           IF i <= Len(s) + 1 THEN Append(s, Head(r))[i] ELSE Tail(r)[i - Len(s) - 1]
    BY <1>1, <1>2, ConcatProperties
  <2>3. CASE i <= Len(s)
    BY <1>1, <1>2, <2>1, <2>2, <2>3
  <2>4. CASE i = Len(s) + 1
    BY <1>1, <1>2, <2>1, <2>2, <2>4
  <2>5. CASE i > Len(s) + 1
    <3>1. i - Len(s) - 1 \in 1 .. Len(r) - 1
      BY <1>1, <2>5
    <3>2. Tail(r)[i - Len(s) - 1] = r[i - Len(s)]
      BY <1>1, <3>1
    <3> QED
      BY <1>1, <2>1, <2>2, <2>5, <3>2
  <2> QED
    BY <1>1, <2>3, <2>4, <2>5
<1> QED
  BY <1>3, <1>4, SeqEqual

LEMMA AppendLast ==
    ASSUME NEW s \in Seq(Item), NEW r \in Seq(Item), NEW e \in Item
    PROVE  s \o Append(r, e) = Append(s \o r, e)
<1>1. <<e>> \in Seq(Item) /\ s \o r \in Seq(Item)
  BY ConcatProperties
<1>2. Append(r, e) = r \o <<e>> /\ Append(s \o r, e) = (s \o r) \o <<e>>
  BY <1>1, AppendIsConcat
<1> QED
  BY <1>1, <1>2, ConcatAssociative

LEMMA Regroup ==
    ASSUME NEW s \in Seq(Item), NEW r \in Seq(Item), NEW u \in Seq(Item)
    PROVE  (s \o r) \o u = s \o (r \o u)
  BY ConcatAssociative

-----------------------------------------------------------------------------
(* What keeps a publication that goes straight to the queue from           *)
(* overtaking one that goes by the loop: it is decided under the lock, for *)
(* a connection that was not bound then and so had nothing on its way.     *)

NoneCrosses ==
    /\ \A c \in Conns : Unbound(c) => NoEvent(ready[c])
    /\ \A t \in Threads : thread[t].pc = "publishing" =>
          IF thread[t].direct THEN NoEvent(ready[thread[t].conn])
          ELSE ~Unbound(thread[t].conn)

OInv == NoneCrosses /\ \A c \in Conns : InLine(Line(c), posted[c])

LEMMA Queues ==
    ASSUME IInv, NEW c \in Conns
    PROVE  /\ taken[c] \in Seq(Item) /\ queue[c] \in Seq(Item) /\ ready[c] \in Seq(Item)
           /\ taken[c] \o queue[c] \in Seq(Item) /\ queue[c] \o ready[c] \in Seq(Item)
           /\ Line(c) \in Seq(Item) /\ posted[c] \in Nat
           /\ Line(c) = taken[c] \o (queue[c] \o ready[c])
<1>1. /\ taken[c] \in Seq(Item) /\ queue[c] \in Seq(Item) /\ ready[c] \in Seq(Item)
      /\ posted[c] \in Nat
  BY SeqMonotonic DEF IInv, TypeOK, Item
<1>2. taken[c] \o queue[c] \in Seq(Item) /\ queue[c] \o ready[c] \in Seq(Item)
  BY <1>1, ConcatProperties
<1>3. Line(c) \in Seq(Item)
  BY <1>1, <1>2, ConcatProperties DEF Line
<1>4. Line(c) = taken[c] \o (queue[c] \o ready[c])
  <2>1. PICK p, q, r \in Seq(Item) : p = taken[c] /\ q = queue[c] /\ r = ready[c]
    BY <1>1
  <2>2. (p \o q) \o r = p \o (q \o r)
    BY ConcatAssociative
  <2> QED
    BY <2>1, <2>2 DEF Line
<1> QED
  BY <1>1, <1>2, <1>3, <1>4

\* Nothing is put anywhere, no stream becomes unbound, and a thread that
\* publishes is the one that published.
LEMMA OrderStands ==
    ASSUME IInv, OInv, UNCHANGED <<queue, ready, posted, taken>>,
           \A c \in Conns : Unbound(c)' => Unbound(c),
           \A t \in Threads : thread'[t].pc = "publishing" => thread'[t] = thread[t]
    PROVE  OInv'
<1>1. \A c \in Conns : InLine(Line(c), posted[c])'
  BY DEF OInv, Line
<1>2. ASSUME NEW t \in Threads, thread'[t].pc = "publishing"
      PROVE  /\ thread'[t] = thread[t]
             /\ thread[t].conn \in Conns
  BY <1>2 DEF IInv, OnePublisher
<1>3. NoneCrosses'
  BY <1>2 DEF OInv, NoneCrosses
<1> QED
  BY <1>1, <1>3 DEF OInv

\* One connection's line changes as said, nothing becomes unbound, its ready
\* callbacks get no event unless none may cross it.
LEMMA OneLine ==
    ASSUME IInv, OInv, NEW c \in Conns, InLine(Line(c), posted[c])',
           \A x \in Conns \ {c} : UNCHANGED <<queue[x], ready[x], taken[x], posted[x]>>,
           \A x \in Conns : Unbound(x)' => Unbound(x),
           \A t \in Threads : thread'[t].pc = "publishing" => thread'[t] = thread[t],
           NoEvent(ready[c]) =>
              \/ NoEvent(ready'[c])
              \/ /\ ~Unbound(c)
                 /\ \A t \in Threads : thread'[t].pc = "publishing" => thread'[t].conn # c
    PROVE  OInv'
<1>1. \A x \in Conns : InLine(Line(x), posted[x])'
  <2>1. ASSUME NEW x \in Conns, x # c PROVE InLine(Line(x), posted[x])'
    BY <2>1 DEF OInv, Line
  <2> QED
    BY <2>1
<1>2. ASSUME NEW x \in Conns, Unbound(x)' PROVE NoEvent(ready'[x])
  BY <1>2 DEF OInv, NoneCrosses
<1>3. ASSUME NEW t \in Threads, thread'[t].pc = "publishing"
      PROVE  (IF thread[t].direct THEN NoEvent(ready[thread[t].conn])
              ELSE ~Unbound(thread[t].conn))'
  <2>1. thread'[t] = thread[t] /\ thread[t].conn \in Conns
    BY <1>3 DEF IInv, OnePublisher
  <2>2. CASE thread[t].conn = c
    <3>1. IF thread[t].direct THEN NoEvent(ready[c]) /\ NoEvent(ready'[c])
          ELSE ~Unbound(c)
      BY <1>3, <2>1, <2>2 DEF OInv, NoneCrosses
    <3> QED
      BY <2>1, <2>2, <3>1 DEF Unbound
  <2>3. CASE thread[t].conn # c
    <3>1. IF thread[t].direct THEN NoEvent(ready[thread[t].conn])
          ELSE ~Unbound(thread[t].conn)
      BY <1>3, <2>1 DEF OInv, NoneCrosses
    <3> QED
      BY <2>1, <2>3, <3>1 DEF Unbound
  <2> QED
    BY <2>2, <2>3
<1> QED
  BY <1>1, <1>2, <1>3 DEF OInv, NoneCrosses

LEMMA RegisterInOrder ==
    ASSUME IInv, OInv, NEW t \in Threads, NEW d \in Devices, Register(t, d)
    PROVE  OInv'
<1>1. PICK c \in Conns :
        /\ Free(c)
        /\ stream' = [stream EXCEPT ![c] = "opened"]
        /\ queue' = [queue EXCEPT ![c] = <<>>]
        /\ ready' = [ready EXCEPT ![c] = <<>>]
        /\ posted' = [posted EXCEPT ![c] = 0]
        /\ taken' = [taken EXCEPT ![c] = <<>>]
  BY DEF Register
<1>2. /\ thread' = [thread EXCEPT ![t] = Replaced(t, d)]
      /\ Replaced(t, d).pc # "publishing"
  BY DEF Register, Replaced, Idle
<1>3. \A u \in Threads : thread'[u].pc = "publishing" => thread'[u] = thread[u]
  BY <1>2 DEF IInv, TypeOK
<1>4. Line(c)' = <<>>
  <2>1. taken'[c] = <<>> /\ queue'[c] = <<>> /\ ready'[c] = <<>>
    BY <1>1 DEF IInv, TypeOK
  <2>2. <<>> \in Seq(Item) /\ <<>> \o <<>> = <<>>
    BY EmptySeq, ConcatEmptySeq
  <2> QED
    BY <2>1, <2>2 DEF Line
<1>5. posted'[c] = 0 /\ ready'[c] = <<>>
  BY <1>1 DEF IInv, TypeOK
<1>6. InLine(Line(c), posted[c])'
  BY <1>4, <1>5 DEF InLine, Event
<1>7. \A x \in Conns \ {c} : InLine(Line(x), posted[x])'
  BY <1>1 DEF OInv, Line, IInv, TypeOK
<1>8. \A x \in Conns : Unbound(x)' => x = c \/ (Unbound(x) /\ ready'[x] = ready[x])
  BY <1>1 DEF Unbound, IInv, TypeOK
<1>9. \A x \in Conns : Unbound(x)' => NoEvent(ready'[x])
  BY <1>5, <1>8 DEF OInv, NoneCrosses, NoEvent
<1>10. ASSUME NEW u \in Threads, thread'[u].pc = "publishing"
       PROVE  (IF thread[u].direct THEN NoEvent(ready[thread[u].conn])
               ELSE ~Unbound(thread[u].conn))'
  <2>1. thread'[u] = thread[u] /\ thread[u].conn \in Conns /\ thread[u].conn # c
    BY <1>1, <1>3, <1>10 DEF Free, IInv, OnePublisher
  <2>2. ready'[thread[u].conn] = ready[thread[u].conn]
    BY <1>1, <2>1 DEF IInv, TypeOK
  <2> QED
    BY <1>8, <1>10, <2>1, <2>2 DEF OInv, NoneCrosses
<1> QED
  BY <1>6, <1>7, <1>9, <1>10 DEF OInv, NoneCrosses

LEMMA PublishStartInOrder ==
    ASSUME IInv, OInv, NEW t \in Threads, NEW d \in Devices, PublishStart(t, d)
    PROVE  OInv'
<1>1. /\ registry[d] \in Conns /\ Unbound(registry[d]) \in BOOLEAN
      /\ UNCHANGED <<stream, queue, ready, posted, taken>>
      /\ thread'[t].conn = registry[d] /\ (thread'[t].direct <=> Unbound(registry[d]))
      /\ \A u \in Threads : u # t => thread'[u] = thread[u]
  <2>1. /\ thread' = [thread EXCEPT ![t] = [pc |-> "publishing", conn |-> registry[d],
                                            direct |-> Unbound(registry[d])]]
        /\ UNCHANGED <<stream, queue, ready, posted, taken>>
        /\ registry[d] \in Conns
    BY DEF PublishStart, IInv, TypeOK
  <2>2. Unbound(registry[d]) \in BOOLEAN
    BY DEF Unbound
  <2>3. thread'[t] = [pc |-> "publishing", conn |-> registry[d], direct |-> Unbound(registry[d])]
    BY <2>1 DEF IInv, TypeOK
  <2>4. \A u \in Threads : u # t => thread'[u] = thread[u]
    BY <2>1 DEF IInv, TypeOK
  <2> QED
    BY <2>1, <2>2, <2>3, <2>4
<1>2. \A x \in Conns : InLine(Line(x), posted[x])'
  BY <1>1 DEF OInv, Line
<1>3. NoneCrosses'
  <2>1. \A x \in Conns : Unbound(x)' = Unbound(x)
    BY <1>1 DEF Unbound
  <2>2. \A x \in Conns : Unbound(x)' => NoEvent(ready'[x])
    BY <1>1, <2>1 DEF OInv, NoneCrosses
  <2>3. ASSUME NEW u \in Threads, thread'[u].pc = "publishing"
        PROVE  (IF thread[u].direct THEN NoEvent(ready[thread[u].conn])
                ELSE ~Unbound(thread[u].conn))'
    <3>1. CASE u = t
      BY <1>1, <2>1, <3>1 DEF OInv, NoneCrosses, Unbound
    <3>2. CASE u # t
      BY <1>1, <2>3, <3>2 DEF OInv, NoneCrosses, Unbound
    <3> QED
      BY <3>1, <3>2
  <2> QED
    BY <2>2, <2>3 DEF NoneCrosses
<1> QED
  BY <1>2, <1>3 DEF OInv

LEMMA PutInOrder ==
    ASSUME IInv, OInv, NEW t \in Threads, Put(t)
    PROVE  OInv'
<1>1. PICK c \in Conns : c = thread[t].conn
  BY DEF Put, IInv, OnePublisher
<1>2. PICK ev \in BOOLEAN : ev <=> thread[t].pc = "publishing"
  OBVIOUS
<1>3. PICK item : item = IF ev THEN posted[c] + 1 ELSE Close
  OBVIOUS
<1>4. /\ posted' = [posted EXCEPT ![c] = IF ev THEN @ + 1 ELSE @]
      /\ queue' = IF thread[t].direct
                  THEN [queue EXCEPT ![c] = Append(@, item)] ELSE queue
      /\ ready' = IF thread[t].direct
                  THEN ready ELSE [ready EXCEPT ![c] = Append(@, item)]
      /\ thread' = [thread EXCEPT ![t] = Idle]
      /\ UNCHANGED <<stream, taken>>
  BY <1>1, <1>2, <1>3 DEF Put
<1>5. /\ posted[c] \in 0 .. MaxPosts /\ (ev => posted[c] < MaxPosts)
      /\ posted \in [Conns -> 0 .. MaxPosts]
      /\ queue \in [Conns -> Seq(Event \union {Close})]
      /\ ready \in [Conns -> Seq(Event \union {Close})]
  BY <1>1, <1>2 DEF IInv, TypeOK, OnePublisher
<1>6. item \in Item /\ (ev => posted[c] + 1 \in Event)
  BY <1>3, <1>5 DEF Event, Item
<1>7. \A u \in Threads : thread'[u].pc = "publishing" => u # t /\ thread'[u] = thread[u]
  BY <1>4 DEF IInv, TypeOK, Idle
<1>8. PICK p, q, r \in Seq(Item) :
        p = taken[c] /\ q = queue[c] /\ r = ready[c] /\ p \o q \in Seq(Item)
  BY Queues
<1>9. InLine(p \o q \o r, posted[c]) /\ Line(c) = p \o q \o r
  BY <1>8 DEF OInv, Line
<1>10. posted'[c] = IF ev THEN posted[c] + 1 ELSE posted[c]
  BY <1>4, <1>5
<1>11. PICK n \in Nat : n = posted[c]
  BY <1>5
<1>12. \A x \in Conns \ {c} : UNCHANGED <<queue[x], ready[x], taken[x], posted[x]>>
  BY <1>4, <1>5
<1>13. CASE thread[t].direct
  <2>1. queue'[c] = Append(q, item) /\ ready'[c] = r /\ taken'[c] = p
    BY <1>4, <1>5, <1>8, <1>13
  <2>2. Line(c)' = Append(p \o q, item) \o r
    <3>1. p \o Append(q, item) = Append(p \o q, item)
      BY <1>6, AppendLast
    <3> QED
      BY <2>1, <3>1 DEF Line
  <2>3. InLine(Line(c), posted[c])'
    <3>1. CASE ev
      <4>1. NoEvent(r)
        BY <1>1, <1>2, <1>8, <1>13, <3>1 DEF OInv, NoneCrosses
      <4>2. n + 1 \in Event /\ InLine(p \o q \o r, n)
        BY <1>6, <1>9, <1>11, <3>1
      <4>3. InLine(Append(p \o q, n + 1) \o r, n + 1)
        BY <1>8, <4>1, <4>2, EventBeforeMarkers
      <4> QED
        BY <1>3, <1>10, <1>11, <2>2, <3>1, <4>3
    <3>2. CASE ~ev
      <4>1. InLine(Append(p \o q, Close) \o r, n)
        BY <1>8, <1>9, <1>11, MarkerBetween
      <4> QED
        BY <1>3, <1>10, <1>11, <2>2, <3>2, <4>1
    <3> QED
      BY <3>1, <3>2
  <2>4. ready'[c] = ready[c]
    BY <1>8, <2>1
  <2>5. \A x \in Conns : Unbound(x)' => Unbound(x)
    BY <1>4 DEF Unbound
  <2> QED
    BY <1>7, <1>12, <2>3, <2>4, <2>5, OneLine
<1>14. CASE ~thread[t].direct
  <2>1. queue'[c] = q /\ ready'[c] = Append(r, item) /\ taken'[c] = p
    BY <1>4, <1>5, <1>8, <1>14
  <2>2. PICK s \in Seq(Item) : s = p \o q \o r
    BY <1>9, Queues
  <2>3. Line(c)' = Append(s, item)
    <3>1. (p \o q) \o Append(r, item) = Append(s, item)
      <4>1. PICK s1 \in Seq(Item) : s1 = p \o q
        BY <1>8
      <4>2. s1 \o Append(r, item) = Append(s1 \o r, item)
        BY <1>6, AppendLast
      <4> QED
        BY <2>2, <4>1, <4>2
    <3> QED
      BY <2>1, <3>1 DEF Line
  <2>4. /\ <<>> \in Seq(Item) /\ NoEvent(<<>>) /\ s \o <<>> = s
        /\ Append(s, item) \in Seq(Item) /\ Append(s, item) \o <<>> = Append(s, item)
    BY <1>6, ConcatEmptySeq, AppendProperties, EmptySeq DEF NoEvent
  <2>5. InLine(Line(c), posted[c])'
    <3>1. CASE ev
      <4>1. n + 1 \in Event /\ InLine(s \o <<>>, n)
        BY <1>6, <1>9, <1>11, <2>2, <2>4, <3>1
      <4>2. InLine(Append(s, n + 1) \o <<>>, n + 1)
        BY <2>4, <4>1, EventBeforeMarkers
      <4> QED
        BY <1>3, <1>10, <1>11, <2>3, <2>4, <3>1, <4>2
    <3>2. CASE ~ev
      <4>1. InLine(Append(s, Close) \o <<>>, n)
        BY <1>9, <1>11, <2>2, <2>4, MarkerBetween
      <4> QED
        BY <1>3, <1>10, <1>11, <2>3, <2>4, <3>2, <4>1
    <3> QED
      BY <3>1, <3>2
  <2>6. \A x \in Conns : Unbound(x)' => Unbound(x)
    BY <1>4 DEF Unbound
  <2>7. \/ NoEvent(ready[c]) => NoEvent(ready'[c])
        \/ /\ ~Unbound(c)
           /\ \A u \in Threads : thread'[u].pc = "publishing" => thread'[u].conn # c
    <3>1. CASE ev
      <4>1. ~Unbound(c)
        BY <1>1, <1>2, <1>14, <3>1 DEF OInv, NoneCrosses
      <4>2. \A u \in Threads : thread'[u].pc # "publishing"
        BY <1>2, <1>7, <3>1 DEF IInv, OnePublisher
      <4> QED
        BY <4>1, <4>2
    <3>2. CASE ~ev
      <4>1. ready'[c] = Append(r, Close) /\ ready[c] = r
        BY <1>3, <1>8, <2>1, <3>2
      <4>2. NoEvent(r) => NoEvent(Append(r, Close))
        BY AppendProperties, LenProperties DEF NoEvent, Item
      <4> QED
        BY <4>1, <4>2
    <3> QED
      BY <3>1, <3>2
  <2> QED
    BY <1>7, <1>12, <2>5, <2>6, <2>7, OneLine
<1> QED
  BY <1>13, <1>14

\* A callback runs: its item moves to the end of the queue.
LEMMA RunReadyInOrder ==
    ASSUME IInv, OInv, NEW c \in Conns, RunReady(c)
    PROVE  OInv'
<1>1. PICK p, q, r \in Seq(Item) :
        p = taken[c] /\ q = queue[c] /\ r = ready[c] /\ p \o q \in Seq(Item)
  BY Queues
<1>2. /\ r # <<>>
      /\ queue' = [queue EXCEPT ![c] = Append(q, Head(r))]
      /\ ready' = [ready EXCEPT ![c] = Tail(r)]
      /\ UNCHANGED <<stream, posted, taken, thread>>
  BY <1>1 DEF RunReady
<1>3. /\ Head(r) \in Item /\ Tail(r) \in Seq(Item)
      /\ NoEvent(r) => NoEvent(Tail(r))
  BY <1>2, HeadTailProperties, EmptySeq, LenProperties DEF NoEvent
<1>4. queue'[c] = Append(q, Head(r)) /\ ready'[c] = Tail(r) /\ taken'[c] = p
  BY <1>1, <1>2 DEF IInv, TypeOK
<1>5. (p \o Append(q, Head(r))) \o Tail(r) = (p \o q) \o r
  <2>1. p \o Append(q, Head(r)) = Append(p \o q, Head(r))
    BY <1>3, AppendLast
  <2> QED
    <3>1. PICK s1 \in Seq(Item) : s1 = p \o q
      BY <1>1
    <3>2. Append(s1, Head(r)) \o Tail(r) = s1 \o r
      BY <1>2, HeadMoves
    <3> QED
      BY <2>1, <3>1, <3>2
<1>6. InLine(Line(c), posted[c])'
  <2>1. Line(c)' = Line(c)
    BY <1>1, <1>4, <1>5 DEF Line
  <2> QED
    BY <1>2, <2>1 DEF OInv
<1>7. \A x \in Conns \ {c} : UNCHANGED <<queue[x], ready[x], taken[x], posted[x]>>
  BY <1>2 DEF IInv, TypeOK
<1>8. \A x \in Conns : Unbound(x)' => Unbound(x)
  BY <1>2 DEF Unbound
<1>9. NoEvent(ready[c]) => NoEvent(ready'[c])
  BY <1>1, <1>3, <1>4
<1> QED
  BY <1>2, <1>6, <1>7, <1>8, <1>9, OneLine

\* The generator takes the first item: an event is yielded, a marker is not.
LEMMA StreamTakeInOrder ==
    ASSUME IInv, OInv, NEW c \in Conns, StreamTake(c)
    PROVE  OInv'
<1>1. PICK p, q, r \in Seq(Item) :
        p = taken[c] /\ q = queue[c] /\ r = ready[c] /\ q \o r \in Seq(Item)
  BY Queues
<1>2. /\ q # <<>>
      /\ queue' = [queue EXCEPT ![c] = Tail(q)]
      /\ taken' = [taken EXCEPT ![c] = IF Head(q) = Close THEN p ELSE Append(p, Head(q))]
      /\ stream' = [stream EXCEPT ![c] = IF Head(q) = Close THEN "leaving" ELSE "top"]
      /\ UNCHANGED <<ready, posted, thread>>
  BY <1>1 DEF StreamTake
<1>3. Head(q) \in Item /\ Tail(q) \in Seq(Item)
  BY <1>2, HeadTailProperties, EmptySeq, LenProperties
<1>4. PICK n \in Nat : n = posted[c]
  BY Queues
<1>5. InLine(p \o q \o r, n)
  BY <1>1, <1>4 DEF OInv, Line
<1>6. ASSUME Head(q) = Close PROVE InLine(Line(c)', n)
  <2>1. Line(c)' = p \o Tail(q) \o r
    BY <1>1, <1>2, <1>6 DEF Line, IInv, TypeOK
  <2>2. PICK s \in Seq(Item) : s = Tail(q) \o r
    BY <1>3, ConcatProperties
  <2>3. Append(p, Close) \o s = p \o q \o r
    <3>1. Append(p, Close) \in Seq(Item) /\ Append(p, Close) \o Tail(q) = p \o q
      BY <1>2, <1>6, HeadMoves, AppendProperties DEF Item
    <3>2. Append(p, Close) \o (Tail(q) \o r) = (Append(p, Close) \o Tail(q)) \o r
      <4>1. PICK s1, s2 \in Seq(Item) : s1 = Append(p, Close) /\ s2 = Tail(q)
        BY <1>3, <3>1
      <4>2. (s1 \o s2) \o r = s1 \o (s2 \o r)
        BY Regroup
      <4> QED
        BY <4>1, <4>2
    <3> QED
      BY <2>2, <3>1, <3>2
  <2>4. InLine(p \o s, n)
    BY <1>5, <2>3, MarkerBetween
  <2>5. p \o Tail(q) \o r = p \o s
    BY <1>3, <2>2, ConcatAssociative
  <2> QED
    BY <2>1, <2>4, <2>5
<1>7. ASSUME Head(q) # Close PROVE InLine(Line(c)', n)
  <2>1. Line(c)' = Append(p, Head(q)) \o Tail(q) \o r
    BY <1>1, <1>2, <1>7 DEF Line, IInv, TypeOK
  <2>2. Append(p, Head(q)) \o Tail(q) = p \o q
    BY <1>2, HeadMoves
  <2> QED
    BY <1>5, <2>1, <2>2
<1>8. InLine(Line(c), posted[c])'
  <2>1. posted'[c] = n
    BY <1>2, <1>4
  <2>2. InLine(Line(c)', n)
    BY <1>6, <1>7
  <2> QED
    BY <2>1, <2>2
<1>9. \A x \in Conns \ {c} : UNCHANGED <<queue[x], ready[x], taken[x], posted[x]>>
  BY <1>2 DEF IInv, TypeOK
<1>10. \A x \in Conns : Unbound(x)' => Unbound(x)
  BY <1>2 DEF Unbound, IInv, TypeOK
<1>11. ready'[c] = ready[c]
  BY <1>2
<1> QED
  BY <1>2, <1>8, <1>9, <1>10, <1>11, OneLine

\* A generator's own marker goes by callback.
LEMMA CloseOwnInOrder ==
    ASSUME IInv, OInv, NEW c \in Conns, CloseOwn(c)
    PROVE  OInv'
<1>1. PICK s, r \in Seq(Item) : s = Line(c) /\ r = ready[c] /\ taken[c] \o queue[c] \in Seq(Item)
                                /\ posted[c] \in Nat
  BY Queues
<1>2. /\ ready' = IF closed[c] THEN ready ELSE [ready EXCEPT ![c] = Append(r, Close)]
      /\ stream' = [stream EXCEPT ![c] = "done"]
      /\ UNCHANGED <<queue, posted, taken, thread>>
  BY <1>1 DEF CloseOwn
<1>3. \A x \in Conns : Unbound(x)' => Unbound(x)
  BY <1>2 DEF Unbound, IInv, TypeOK
<1>4. CASE closed[c]
  BY <1>2, <1>3, <1>4, OrderStands
<1>5. CASE ~closed[c]
  <2>1. ready'[c] = Append(r, Close)
    BY <1>2, <1>5 DEF IInv, TypeOK
  <2>2. Line(c)' = Append(s, Close)
    <3>1. PICK p \in Seq(Item) : p = taken[c] \o queue[c]
      BY <1>1
    <3>2. p \o Append(r, Close) = Append(p \o r, Close)
      BY AppendLast DEF Item
    <3> QED
      BY <1>1, <1>2, <2>1, <3>1, <3>2 DEF Line
  <2>3. /\ <<>> \in Seq(Item) /\ s \o <<>> = s
        /\ Append(s, Close) \in Seq(Item) /\ Append(s, Close) \o <<>> = Append(s, Close)
    <3>1. <<>> \in Seq(Item) /\ Append(s, Close) \in Seq(Item)
      BY AppendProperties, EmptySeq DEF Item
    <3> QED
      BY <3>1, ConcatEmptySeq
  <2>4. InLine(s, posted[c])
    BY <1>1 DEF OInv
  <2>5. InLine(Append(s, Close), posted[c])
    <3>1. PICK n \in Nat : n = posted[c]
      BY <1>1
    <3>2. PICK e \in Seq(Item) : e = <<>>
      BY EmptySeq
    <3>3. InLine(Append(s, Close) \o e, n) <=> InLine(s \o e, n)
      BY MarkerBetween
    <3> QED
      BY <2>3, <2>4, <3>1, <3>2, <3>3
  <2>6. InLine(Line(c), posted[c])'
    BY <1>2, <2>2, <2>5
  <2>7. \A x \in Conns \ {c} : UNCHANGED <<queue[x], ready[x], taken[x], posted[x]>>
    BY <1>2, <1>5 DEF IInv, TypeOK
  <2>8. NoEvent(r) => NoEvent(Append(r, Close))
    BY AppendProperties, LenProperties DEF NoEvent, Item
  <2> QED
    BY <1>1, <1>2, <1>3, <2>1, <2>6, <2>7, <2>8, OneLine
<1> QED
  BY <1>4, <1>5

LEMMA NextInOrder ==
    ASSUME IInv, OInv, [Next]_vars
    PROVE  OInv'
<1>1. ASSUME NEW t \in Threads, NEW d \in Devices, Register(t, d) \/ PublishStart(t, d)
      PROVE  OInv'
  BY <1>1, RegisterInOrder, PublishStartInOrder
<1>2. ASSUME NEW t \in Threads, CloseReplaced(t)
      PROVE  OInv'
  <2>1. /\ UNCHANGED <<queue, ready, posted, taken, stream>>
        /\ \A u \in Threads : thread'[u].pc = "publishing" => thread'[u] = thread[u]
    BY <1>2 DEF CloseReplaced, IInv, TypeOK, ThreadState, Idle
  <2> QED
    BY <2>1, OrderStands DEF Unbound
<1>3. ASSUME NEW t \in Threads, Put(t)
      PROVE  OInv'
  BY <1>3, PutInOrder
<1>4. ASSUME NEW c \in Conns,
             \/ StreamStart(c) \/ StreamStop(c) \/ StreamWait(c)
             \/ StreamHeartbeat(c) \/ Disconnect(c) \/ Unregister(c)
      PROVE  OInv'
  <2>1. UNCHANGED <<queue, ready, posted, taken, thread>>
    BY <1>4 DEF StreamStart, StreamStop, StreamWait, StreamHeartbeat, Disconnect, Unregister
  <2>2. \A x \in Conns : Unbound(x)' => Unbound(x)
    BY <1>4 DEF StreamStart, StreamStop, StreamWait, StreamHeartbeat, Disconnect,
                Unregister, Unbound, IInv, TypeOK, Attached, Beats
  <2> QED
    BY <2>1, <2>2, OrderStands
<1>5. ASSUME NEW c \in Conns, RunReady(c) \/ StreamTake(c) \/ CloseOwn(c)
      PROVE  OInv'
  BY <1>5, RunReadyInOrder, StreamTakeInOrder, CloseOwnInOrder
<1>6. CASE UNCHANGED vars
  BY <1>6, OrderStands DEF vars, Unbound
<1> QED
  BY <1>1, <1>2, <1>3, <1>4, <1>5, <1>6 DEF Next, ThreadNext, LoopNext

LEMMA InitInOrder == Init => OInv
<1> SUFFICES ASSUME Init PROVE OInv
  OBVIOUS
<1>1. <<>> \o <<>> = <<>>
  BY EmptySeq, ConcatEmptySeq
<1>2. \A c \in Conns : Line(c) = <<>> /\ posted[c] = 0
  BY <1>1 DEF Init, Line
<1>3. \A c \in Conns : InLine(Line(c), posted[c])
  BY <1>2 DEF InLine, Event
<1>4. NoneCrosses
  BY DEF Init, NoneCrosses, Unbound, Idle
<1> QED
  BY <1>3, <1>4 DEF OInv

\* OInv says InOrder.
LEMMA InOrderFollows ==
    ASSUME IInv, OInv
    PROVE  InOrder
<1> SUFFICES ASSUME NEW c \in Conns
             PROVE  /\ \A i, j \in DOMAIN Line(c) :
                         i < j /\ Close \notin {Line(c)[i], Line(c)[j]}
                         => Line(c)[i] < Line(c)[j]
                    /\ \A n \in Event : n <= posted[c] <=> Contains(Line(c), n)
  BY DEF InOrder
<1>1. InLine(Line(c), posted[c])
  BY DEF OInv
<1>2. PICK s \in Seq(Item) : s = Line(c) /\ DOMAIN s = 1 .. Len(s)
  BY Queues, LenProperties
<1> QED
  BY <1>1, <1>2 DEF InLine, Contains

-----------------------------------------------------------------------------
(* The theorems *)

\* Every step keeps the inductive invariant: the types, one publisher at a
\* time, entries open, open streams listed.
THEOREM Invariance == Spec => []IInv
PROOF
<1>1. Init => IInv
    <2> SUFFICES ASSUME Init PROVE IInv
        OBVIOUS
    <2>1. TypeOK
        BY DEF Init, TypeOK, StreamState, ThreadState, Idle
    <2>2. Detached /\ OnePublisher
        BY DEF Init, Detached, OnePublisher, Idle
    <2>3. RegisteredIsOpen /\ OpenIsRegistered
        BY DEF Init, RegisteredIsOpen, OpenIsRegistered, Running, Attached
    <2>4. QED BY <2>1, <2>2, <2>3 DEF IInv
<1>2. IInv /\ [Next]_vars => IInv'
    <2> SUFFICES ASSUME IInv, [Next]_vars PROVE IInv'
        OBVIOUS
    <2>1. CASE ThreadNext
        BY <2>1, RegisterKeeps, PublishStartKeeps, CloseReplacedKeeps, PutKeeps
            DEF ThreadNext
    <2>2. CASE LoopNext
        BY <2>2, RunReadyKeeps, StreamKeeps, UnregisterKeeps, CloseOwnKeeps
            DEF LoopNext
    <2>3. CASE UNCHANGED vars
        BY <2>3 DEF vars, IInv, TypeOK, Detached, OnePublisher, RegisteredIsOpen,
                    OpenIsRegistered, Running
    <2>4. QED BY <2>1, <2>2, <2>3 DEF Next
<1>3. QED BY <1>1, <1>2, PTL DEF Spec

\* publish_message never meets a closed connection, and the entry of a device
\* is a connection of that device.
THEOREM EntriesOpen == Spec => []RegisteredIsOpen
PROOF
<1>1. IInv => RegisteredIsOpen
    BY DEF IInv
<1>2. QED BY <1>1, Invariance, PTL

\* No open stream is orphaned, whatever replaces or leaves meanwhile.
THEOREM NoneOrphaned == Spec => []OpenIsRegistered
PROOF
<1>1. IInv => OpenIsRegistered
    BY DEF IInv
<1>2. QED BY <1>1, Invariance, PTL

\* A connection delivers what was put into it in that order, nothing lost and
\* nothing twice, whichever way each item took from its thread to the loop.
THEOREM Ordered == Spec => []InOrder
<1>1. Init => OInv
  BY InitInOrder
<1>2. IInv /\ OInv /\ [Next]_vars => OInv'
  BY NextInOrder
<1>3. IInv /\ OInv => InOrder
  BY InOrderFollows
<1> QED
  BY <1>1, <1>2, <1>3, Invariance, PTL DEF Spec
=============================================================================
