-------------------------------- MODULE Sse --------------------------------
(***************************************************************************)
(* The registry of live event streams, one per device: which connection a  *)
(* publication reaches, how an event crosses from the publisher's thread   *)
(* to the event loop, and how a stream ends.                               *)
(*                                                                         *)
(* Two kinds of actor.  Worker threads register a connection (GET          *)
(* /mobile/v1/events) and publish (after a message is committed); they run *)
(* at any time and meet at the registry's lock.  The generators of the     *)
(* streams are tasks of ONE event loop: each of their actions is what the  *)
(* loop does between two suspensions, or between two lock operations.      *)
(*                                                                         *)
(* The agents' registry (agent_event_publisher.py) is the same algorithm   *)
(* keyed by account; an event's payload is the only difference.            *)
(***************************************************************************)
EXTENDS Naturals, Sequences, SequencesExt

CONSTANTS
    Devices,    \* keys of the registry
    Conns,      \* SseConnection objects, reused once nothing refers to them
    Threads,    \* worker threads
    MaxPosts,   \* bound: events put into one connection
    Nil,        \* None
    Close       \* the _CLOSE marker

ASSUME SseAssumption ==
    /\ MaxPosts \in Nat
    /\ Nil \notin Conns /\ Close \notin Nat

VARIABLES
    registry,   \* _connections
    owner,      \* SseConnection.device_id
    closed,     \* SseConnection.closed
    stream,     \* where the generator of the connection is
    queue,      \* SseConnection.events
    ready,      \* put_nowait callbacks the loop has not run yet
    rung,       \* whether the loop knows that the sleeping getter has an item
    posted,     \* how many events were put into the connection
    taken,      \* the events its generator yielded, in order
    thread      \* what each worker thread is doing

vars == <<registry, owner, closed, stream, queue, ready, rung, posted, taken, thread>>

\* An event is named by its place among the events put into its connection.
Event == 1..MaxPosts

-----------------------------------------------------------------------------
(* Where a generator can be *)

Attached == {"top", "asleep"}         \* started, its client still there
Leaving == {"leaving", "unlisted"}    \* in its `finally'
\* "opened": registered, not yet started.  "lost": the client went before the
\* generator's first step, which therefore never comes, nor its `finally'.
StreamState == Attached \union Leaving \union {"unused", "opened", "done", "lost"}

Idle == [pc |-> "idle", conn |-> Nil, direct |-> FALSE]
ThreadState == [pc : {"idle", "replacing", "closing", "publishing"},
                conn : Conns \union {Nil}, direct : BOOLEAN]

Init ==
    /\ registry = [d \in Devices |-> Nil]
    /\ owner \in [Conns -> Devices]
    /\ owner = [c \in Conns |-> CHOOSE d \in Devices : TRUE]
    /\ closed = [c \in Conns |-> FALSE]
    /\ stream = [c \in Conns |-> "unused"]
    /\ queue = [c \in Conns |-> <<>>]
    /\ ready = [c \in Conns |-> <<>>]
    /\ rung = [c \in Conns |-> FALSE]
    /\ posted = [c \in Conns |-> 0]
    /\ taken = [c \in Conns |-> <<>>]
    /\ thread = [t \in Threads |-> Idle]

\* The publisher keeps `_lock' while it puts its event.
LockFree == \A t \in Threads : thread[t].pc # "publishing"

\* put_event reads `loop' before it acts: None until the generator starts.
Unbound(c) == stream[c] \in {"opened", "lost"}

-----------------------------------------------------------------------------
(* Registering a connection *)

\* Nothing refers to the object any more.
Free(c) ==
    /\ stream[c] \in {"unused", "done", "lost"}
    /\ registry[owner[c]] # c
    /\ \A t \in Threads : thread[t].conn # c

\* Mutant: the previous connection is left alone.
ReplacedAndForgotten(t, d) == Idle

\* A new connection takes the device's entry; the previous one is to be closed
\* once the lock is released.
Replaced(t, d) ==
    IF registry[d] = Nil THEN Idle
    ELSE [pc |-> "replacing", conn |-> registry[d], direct |-> FALSE]

Register(t, d) ==
    /\ thread[t] = Idle
    /\ LockFree
    /\ \E c \in Conns :
        /\ Free(c)
        /\ registry' = [registry EXCEPT ![d] = c]
        /\ owner' = [owner EXCEPT ![c] = d]
        /\ closed' = [closed EXCEPT ![c] = FALSE]
        /\ stream' = [stream EXCEPT ![c] = "opened"]
        /\ queue' = [queue EXCEPT ![c] = <<>>]
        /\ ready' = [ready EXCEPT ![c] = <<>>]
        /\ rung' = [rung EXCEPT ![c] = FALSE]
        /\ posted' = [posted EXCEPT ![c] = 0]
        /\ taken' = [taken EXCEPT ![c] = <<>>]
    /\ thread' = [thread EXCEPT ![t] = Replaced(t, d)]

-----------------------------------------------------------------------------
(* Putting an item from a worker thread *)

\* close() of the replaced connection: mark it, and put the marker unless it
\* was marked already.
CloseReplaced(t) ==
    /\ thread[t].pc = "replacing"
    /\ LET c == thread[t].conn IN
        /\ closed' = [closed EXCEPT ![c] = TRUE]
        /\ thread' = [thread EXCEPT ![t] =
                        IF closed[c] THEN Idle
                        ELSE [@ EXCEPT !.pc = "closing", !.direct = Unbound(c)]]
    /\ UNCHANGED <<registry, owner, stream, queue, ready, rung, posted, taken>>

\* Mutant: publications do not exclude each other.
MayPublishUnlocked(t) == thread[t] = Idle

\* publish_message finds the device's connection and enters put_event, under
\* the lock.  Without an open connection it returns False and changes nothing.
MayPublish(t) == thread[t] = Idle /\ LockFree

PublishStart(t, d) ==
    /\ MayPublish(t)
    /\ registry[d] # Nil
    /\ ~closed[registry[d]]
    /\ posted[registry[d]] < MaxPosts
    /\ thread' = [thread EXCEPT ![t] = [pc |-> "publishing", conn |-> registry[d],
                                        direct |-> Unbound(registry[d])]]
    /\ UNCHANGED <<registry, owner, closed, stream, queue, ready, rung, posted, taken>>

\* put_event: an unbound connection's queue is appended to by this thread, and
\* the loop is not told; a bound one's by a callback the loop will run.
Put(t) ==
    /\ thread[t].pc \in {"closing", "publishing"}
    /\ LET c    == thread[t].conn
           ev   == thread[t].pc = "publishing"
           item == IF ev THEN posted[c] + 1 ELSE Close
       IN /\ posted' = [posted EXCEPT ![c] = IF ev THEN @ + 1 ELSE @]
          /\ queue' = IF thread[t].direct
                      THEN [queue EXCEPT ![c] = Append(@, item)] ELSE queue
          /\ ready' = IF thread[t].direct
                      THEN ready ELSE [ready EXCEPT ![c] = Append(@, item)]
    /\ thread' = [thread EXCEPT ![t] = Idle]
    /\ UNCHANGED <<registry, owner, closed, stream, rung, taken>>

-----------------------------------------------------------------------------
(* The generator of a stream, on the event loop *)

\* The loop runs a put_nowait callback, which wakes the getter.
RunReady(c) ==
    /\ ready[c] # <<>>
    /\ queue' = [queue EXCEPT ![c] = Append(@, Head(ready[c]))]
    /\ ready' = [ready EXCEPT ![c] = Tail(@)]
    /\ rung' = [rung EXCEPT ![c] = stream[c] = "asleep"]
    /\ UNCHANGED <<registry, owner, closed, stream, posted, taken, thread>>

StreamStart(c) ==
    /\ stream[c] = "opened"
    /\ stream' = [stream EXCEPT ![c] = "top"]
    /\ UNCHANGED <<registry, owner, closed, queue, ready, rung, posted, taken, thread>>

\* `while not connection.closed.is_set()'
StreamStop(c) ==
    /\ stream[c] = "top" /\ closed[c]
    /\ stream' = [stream EXCEPT ![c] = "leaving"]
    /\ UNCHANGED <<registry, owner, closed, queue, ready, rung, posted, taken, thread>>

StreamWait(c) ==
    /\ stream[c] = "top" /\ ~closed[c] /\ queue[c] = <<>>
    /\ stream' = [stream EXCEPT ![c] = "asleep"]
    /\ rung' = [rung EXCEPT ![c] = FALSE]
    /\ UNCHANGED <<registry, owner, closed, queue, ready, posted, taken, thread>>

\* events.get() returns: at once, or when the loop resumes the sleeping getter,
\* be it rung or turning for another reason.  A marker ends the generator.
StreamTake(c) ==
    /\ stream[c] = "asleep" \/ (stream[c] = "top" /\ ~closed[c])
    /\ queue[c] # <<>>
    /\ queue' = [queue EXCEPT ![c] = Tail(@)]
    /\ stream' = [stream EXCEPT ![c] =
                    IF Head(queue[c]) = Close THEN "leaving" ELSE "top"]
    /\ taken' = [taken EXCEPT ![c] =
                    IF Head(queue[c]) = Close THEN @ ELSE Append(@, Head(queue[c]))]
    /\ rung' = [rung EXCEPT ![c] = FALSE]
    /\ UNCHANGED <<registry, owner, closed, ready, posted, thread>>

\* Mutant: get() is awaited without a timeout.
BeatsNever(c) == FALSE

\* Twenty seconds without an item: a comment line, and around the loop again.
Beats(c) == stream[c] = "asleep"

StreamHeartbeat(c) ==
    /\ Beats(c)
    /\ stream' = [stream EXCEPT ![c] = "top"]
    /\ rung' = [rung EXCEPT ![c] = FALSE]
    /\ UNCHANGED <<registry, owner, closed, queue, ready, posted, taken, thread>>

\* The client goes: the response task is cancelled.
Disconnect(c) ==
    /\ stream[c] \in Attached \union {"opened"}
    /\ stream' = [stream EXCEPT ![c] = IF @ = "opened" THEN "lost" ELSE "leaving"]
    /\ rung' = [rung EXCEPT ![c] = FALSE]
    /\ UNCHANGED <<registry, owner, closed, queue, ready, posted, taken, thread>>

\* Mutants: the entry goes whoever it is; the entry stays.
DelistedBlindly(c) == [registry EXCEPT ![owner[c]] = Nil]

DelistedNever(c) == registry

\* unregister: leave the registry, if the entry is still this connection ...
Delisted(c) == IF registry[owner[c]] = c
               THEN [registry EXCEPT ![owner[c]] = Nil] ELSE registry

Unregister(c) ==
    /\ stream[c] = "leaving"
    /\ LockFree
    /\ registry' = Delisted(c)
    /\ stream' = [stream EXCEPT ![c] = "unlisted"]
    /\ UNCHANGED <<owner, closed, queue, ready, rung, posted, taken, thread>>

\* ... and close.  The loop is this one and runs: the marker goes by callback.
CloseOwn(c) ==
    /\ stream[c] = "unlisted"
    /\ closed' = [closed EXCEPT ![c] = TRUE]
    /\ ready' = IF closed[c] THEN ready ELSE [ready EXCEPT ![c] = Append(@, Close)]
    /\ stream' = [stream EXCEPT ![c] = "done"]
    /\ UNCHANGED <<registry, owner, queue, rung, posted, taken, thread>>

-----------------------------------------------------------------------------
(* Specification *)

ThreadNext == \E t \in Threads :
    \/ \E d \in Devices : Register(t, d) \/ PublishStart(t, d)
    \/ CloseReplaced(t)
    \/ Put(t)

LoopNext == \E c \in Conns :
    \/ RunReady(c) \/ StreamStart(c) \/ StreamStop(c) \/ StreamWait(c)
    \/ StreamTake(c) \/ StreamHeartbeat(c) \/ Disconnect(c)
    \/ Unregister(c) \/ CloseOwn(c)

Next == ThreadNext \/ LoopNext

Spec == Init /\ [][Next]_vars

\* Threads finish the call they are in, and so does the loop with what is
\* ready: its callbacks, its runnable generators and its expired timeouts.  A
\* getter that was not rung has no claim to be resumed, and a lock that
\* publishers keep taking is granted at last.  Nobody has to call or to leave.
Fairness ==
    /\ \A t \in Threads : WF_vars(CloseReplaced(t)) /\ WF_vars(Put(t))
    /\ \A c \in Conns :
        /\ WF_vars(RunReady(c)) /\ WF_vars(StreamStart(c))
        /\ WF_vars(StreamStop(c)) /\ WF_vars(StreamWait(c))
        /\ WF_vars((stream[c] = "top" \/ rung[c]) /\ StreamTake(c))
        /\ WF_vars(StreamHeartbeat(c))
        /\ SF_vars(Unregister(c)) /\ WF_vars(CloseOwn(c))

LiveSpec == Spec /\ Fairness

-----------------------------------------------------------------------------
(* Properties *)

TypeOK ==
    /\ registry \in [Devices -> Conns \union {Nil}]
    /\ owner \in [Conns -> Devices]
    /\ closed \in [Conns -> BOOLEAN] /\ rung \in [Conns -> BOOLEAN]
    /\ stream \in [Conns -> StreamState]
    /\ queue \in [Conns -> Seq(Event \union {Close})]
    /\ ready \in [Conns -> Seq(Event \union {Close})]
    /\ posted \in [Conns -> 0..MaxPosts]
    /\ taken \in [Conns -> Seq(Event)]
    /\ thread \in [Threads -> ThreadState]

Running(c) == stream[c] \in Attached \union {"opened"}

\* No stream is orphaned: a running, open connection is the one its device's
\* events go to, or the thread that replaced it is about to close it.
OpenIsRegistered == \A c \in Conns :
    Running(c) /\ ~closed[c] =>
        \/ registry[owner[c]] = c
        \/ \E t \in Threads : thread[t].pc = "replacing" /\ thread[t].conn = c

\* The entry of a device is its own, open, connection: whatever order
\* replacement, disconnection and publication come in, publish_message never
\* finds a closed one.
RegisteredIsOpen == \A d \in Devices : registry[d] # Nil =>
    /\ owner[registry[d]] = d
    /\ ~closed[registry[d]]
    /\ stream[registry[d]] \notin {"unused", "unlisted", "done"}

\* A thread about to close a connection has already taken it off the registry.
Detached == \A t \in Threads : thread[t].pc = "replacing" =>
    thread[t].conn \in Conns /\ registry[owner[thread[t].conn]] # thread[t].conn

\* The lock: one publisher at a time, and it has room for its event.
OnePublisher ==
    /\ \A t \in Threads : thread[t].pc \in {"closing", "publishing"} =>
            thread[t].conn \in Conns
    /\ \A t \in Threads : thread[t].pc = "publishing" => posted[thread[t].conn] < MaxPosts
    /\ \A t, u \in Threads :
            thread[t].pc = "publishing" /\ thread[u].pc = "publishing" => t = u

\* The inductive invariant: what the actions preserve together.
IInv == TypeOK /\ Detached /\ OnePublisher /\ RegisteredIsOpen /\ OpenIsRegistered

\* A connection delivers the events put into it in the order they were put,
\* none lost on the way from thread to loop and none twice.  Markers may lie
\* between them.
Line(c) == taken[c] \o queue[c] \o ready[c]
InOrder == \A c \in Conns :
    /\ \A i, j \in DOMAIN Line(c) :
          i < j /\ Close \notin {Line(c)[i], Line(c)[j]} => Line(c)[i] < Line(c)[j]
    /\ \A n \in Event : n <= posted[c] <=> Contains(Line(c), n)

\* The put that publish_message reports as done reaches the client, unless the
\* connection is closed or its client had gone before the stream began.
AcceptedIsSent == \A c \in Conns, n \in Event :
    posted[c] >= n ~> \/ Contains(taken[c], n)
                      \/ closed[c] \/ stream[c] = "lost"

\* A stream whose device has opened another one ends.
ReplacedStreamEnds == \A c \in Conns :
    (Running(c) /\ registry[owner[c]] # c) ~> ~Running(c)
=============================================================================
