----------------------------- MODULE Dashboard -----------------------------
(***************************************************************************)
(* The page of the monitor on which a supervisor watches conversations: a  *)
(* list of cards, loaded page by page and reloaded every ten seconds, and  *)
(* a drawer with the messages of one conversation, refreshed every five.   *)
(* The page's script is single-threaded, but its requests are answered in  *)
(* any order and late, while messages come in and the supervisor clicks.   *)
(*                                                                         *)
(* A new request for the list aborts the one before it.  The drawer's      *)
(* requests are never aborted: the answer of a refresh is dropped when     *)
(* another conversation is shown by then, those of the two others are not. *)
(*                                                                         *)
(* A message is identified with its place in the order of created_at and   *)
(* id; messages may become visible behind later ones, as their times are   *)
(* read before they are committed.  A conversation has a message, as it is *)
(* created with one.                                                       *)
(*                                                                         *)
(* What a choice on the page matches changes under it: a conversation that *)
(* waits is replied to, a SIM is bound to another account, an account is   *)
(* disabled, a remark is edited.  Cards are not looked at again until the  *)
(* list is reloaded.                                                       *)
(***************************************************************************)
EXTENDS Naturals, Sequences, FiniteSets, SequencesExt

CONSTANTS
    Convs,      \* conversations
    Times,      \* places of messages, from 1
    Filters,    \* choices of account, SIM, status and search text
    Waiting,    \* those of status `waiting', which the others leave open
    Groupings,  \* the conversations that each choice may have by account, SIM and text
    Replies,    \* the places of messages to customers
    CardPage,   \* 5, or 20
    MessagePage,\* 50
    Lanes,      \* requests of the drawer at a time
    Nil

ASSUME DashboardAssumption ==
    /\ Times \subseteq Nat \ {0} /\ IsFiniteSet(Times)
    /\ Groupings \subseteq [Filters -> SUBSET Convs]
    /\ CardPage \in Nat \ {0} /\ MessagePage \in Nat \ {0}
    /\ Nil \notin Convs

VARIABLES
    msgs,       \* the conversation of each message that is visible
    among,      \* the conversations of each choice, whatever their status
    filter,     \* selection, status and search text as on the page
    typed,      \* whether the search text changed less than 350 ms ago
    cards,      \* items
    cursor,     \* nextCursor, 0 for none
    lists,      \* requests for the list that may still be answered
    seen,       \* the conversations that matched at some time since the last reload
    detail,     \* the conversation in the drawer
    shown,      \* detailMessages
    before,     \* nextBefore, 0 for none
    lane,       \* requests of the drawer
    stray       \* whether an answer was taken for a drawer it was not asked for

list   == <<filter, typed, cards, cursor, lists, seen>>
drawer == <<detail, shown, before, lane, stray>>
vars   == <<msgs, among, list, drawer>>

-----------------------------------------------------------------------------
(* The service: read-only statements *)

Of(c)     == {i \in Times : msgs[i] = c}
Latest(c) == CHOOSE i \in Of(c) : \A j \in Of(c) : j <= i

\* The last message of a conversation that waits is its customer's.
Matches(f) == {c \in among[f] : f \in Waiting => Of(c) # {} /\ Latest(c) \notin Replies}

\* The values of f in order, each as often as f has it
Sorted(f) == [n \in 1 .. Cardinality(DOMAIN f) |->
    CHOOSE v \in Range(f) : /\ Cardinality({k \in DOMAIN f : f[k] < v}) < n
                            /\ Cardinality({k \in DOMAIN f : f[k] <= v}) >= n]

\* The last n of a set, in order
Newest(S, n) == {i \in S : Cardinality({j \in S : j > i}) < n}
Page(S, n)   == Sorted([i \in Newest(S, n) |-> i])

\* What a cursor admits
Behind(i, from) == from = 0 \/ i < from

\* Where the next page begins
NextOf(S, page, n) == IF Cardinality(S) > n THEN page[1] ELSE 0

\* Conversations by their last message, the latest first, and the cursor
ListConversations(f, from) ==
    LET found == {i \in Times : \E c \in Matches(f) :
                     Of(c) # {} /\ i = Latest(c) /\ Behind(i, from)}
        page  == Page(found, CardPage)
    IN [items |-> Reverse([k \in DOMAIN page |-> msgs[page[k]]]),
        next  |-> NextOf(found, page, CardPage)]

\* Messages of a conversation, the last page of those before a time
ListMessages(c, from) ==
    LET found == {i \in Of(c) : Behind(i, from)}
        page  == Page(found, MessagePage)
    IN [items |-> page, next |-> NextOf(found, page, MessagePage)]

Arrive(i, c) ==
    /\ msgs[i] = Nil
    /\ msgs' = [msgs EXCEPT ![i] = c]
    /\ UNCHANGED <<among, filter, typed, cards, cursor, lists, drawer>>
    /\ seen' = seen \union Matches(filter)'

\* Operators disable accounts, bind SIMs to others, edit remarks.
Regroup ==
    /\ among' \in Groupings
    /\ UNCHANGED <<msgs, filter, typed, cards, cursor, lists, drawer>>
    /\ seen' = seen \union Matches(filter)'

-----------------------------------------------------------------------------
(* The list *)

Request(f, from) == [filter |-> f, from |-> from]

\* Mutant of Alive: requests are not aborted.
AliveAll(rs) == rs

\* The requests that a new one leaves.
Alive(rs) == {}

\* loadConversations(true): another account or SIM, another status, the search
\* text 350 ms after it was typed, or the interval
Reload(f) ==
    /\ filter' = f
    /\ cards' = <<>> /\ cursor' = 0
    /\ lists' = Alive(lists) \union {Request(f, 0)}
    /\ seen' = Matches(f)

Pick(f) ==
    /\ Reload(f)
    /\ UNCHANGED <<msgs, among, typed, drawer>>

Type(f) ==
    /\ filter' = f /\ typed' = TRUE
    /\ UNCHANGED <<msgs, among, cards, cursor, lists, seen, drawer>>

Debounced ==
    /\ typed
    /\ typed' = FALSE
    /\ Reload(filter)
    /\ UNCHANGED <<msgs, among, drawer>>

\* The button for the next page, for the text that is typed by now
More ==
    /\ cursor # 0
    /\ lists' = Alive(lists) \union {Request(filter, cursor)}
    /\ UNCHANGED <<msgs, among, filter, typed, cards, cursor, seen, drawer>>

\* No other request can be sent between answer and display.
ListAnswered(r) ==
    /\ r \in lists
    /\ LET data == ListConversations(r.filter, r.from) IN
       /\ cards' = IF r.from = 0 THEN data.items ELSE cards \o data.items
       /\ cursor' = data.next
    /\ lists' = lists \ {r}
    /\ UNCHANGED <<msgs, among, filter, typed, seen, drawer>>

\* An error takes the cards' place on the screen; they are not forgotten.
ListFailed(r) ==
    /\ r \in lists
    /\ lists' = lists \ {r}
    /\ UNCHANGED <<msgs, among, filter, typed, cards, cursor, seen, drawer>>

-----------------------------------------------------------------------------
(* The drawer *)

Ask(kind, c, from) ==
    [kind |-> kind, conv |-> c, from |-> from, page |-> Nil, left |-> FALSE]
NoAsk == Ask("none", Nil, 0)

Send(q, kind, c, from) ==
    /\ lane[q] = NoAsk
    /\ lane' = [lane EXCEPT ![q] = Ask(kind, c, from)]

Untouched ==
    detail = Nil /\ shown = <<>> /\ before = 0 /\ \A q \in Lanes : lane[q] = NoAsk

\* A click on a card, or the conversation in the page's address when it starts
OpenDetail(q, c) ==
    /\ (\E k \in DOMAIN cards : cards[k] = c) \/ Untouched
    /\ Send(q, "open", c, 0)
    /\ detail' = Nil /\ shown' = <<>>
    /\ UNCHANGED <<msgs, among, list, before, stray>>

\* Every five seconds, by the button, or when the page is visible again
RefreshDetail(q) ==
    /\ detail # Nil
    /\ Send(q, "refresh", detail, 0)
    /\ UNCHANGED <<msgs, among, list, detail, shown, before, stray>>

LoadOlder(q) ==
    /\ detail # Nil /\ before # 0
    /\ Send(q, "older", detail, before)
    /\ UNCHANGED <<msgs, among, list, detail, shown, before, stray>>

Close ==
    /\ detail # Nil
    /\ detail' = Nil
    /\ UNCHANGED <<msgs, among, list, shown, before, lane, stray>>

\* The service reads; the answer is on its way.
Served(q) ==
    /\ lane[q] # NoAsk /\ lane[q].page = Nil
    /\ lane' = [lane EXCEPT ![q].page = ListMessages(lane[q].conv, lane[q].from)]
    /\ UNCHANGED <<msgs, among, list, detail, shown, before, stray>>

Delivered(q, kind) ==
    lane[q].kind = kind /\ lane[q].page # Nil

Done(q) == lane' = [lane EXCEPT ![q] = NoAsk]

\* What was asked before is of a drawer that was left.
Opened(q) ==
    /\ Delivered(q, "open")
    /\ lane' = [p \in Lanes |->
          IF p = q \/ lane[p] = NoAsk THEN NoAsk ELSE [lane[p] EXCEPT !.left = TRUE]]
    /\ detail' = lane[q].conv
    /\ shown' = lane[q].page.items /\ before' = lane[q].page.next
    /\ stray' = FALSE
    /\ UNCHANGED <<msgs, among, list>>

\* Mutant of StillShown: the drawer is open is enough.
StillShownAny(c) == detail # Nil

StillShown(c) == detail = c

\* What is shown and in the new page once, in order.
Merged(page) ==
    LET both == shown \o page
        kept == {k \in DOMAIN both : k > Len(shown) \/ ~Contains(page, both[k])}
    IN Sorted([k \in kept |-> both[k]])

Refreshed(q) ==
    /\ Delivered(q, "refresh") /\ Done(q)
    /\ IF StillShown(lane[q].conv)
       THEN /\ shown' = Merged(lane[q].page.items)
            /\ stray' = (stray \/ (lane[q].left /\ lane[q].conv = detail))
       ELSE UNCHANGED <<shown, stray>>
    /\ UNCHANGED <<msgs, among, list, detail, before>>

OlderLoaded(q) ==
    /\ Delivered(q, "older") /\ Done(q)
    /\ shown' = lane[q].page.items \o shown /\ before' = lane[q].page.next
    /\ stray' = (stray \/ lane[q].left \/ lane[q].from # before)
    /\ UNCHANGED <<msgs, among, list, detail>>

Failed(q) ==
    /\ lane[q] # NoAsk /\ Done(q)
    /\ UNCHANGED <<msgs, among, list, detail, shown, before, stray>>

-----------------------------------------------------------------------------
(* Specification *)

Init ==
    /\ msgs = [i \in Times |-> Nil] /\ among \in Groupings
    /\ filter \in Filters /\ typed = FALSE
    /\ cards = <<>> /\ cursor = 0 /\ lists = {} /\ seen = Matches(filter)
    /\ detail = Nil /\ shown = <<>> /\ before = 0
    /\ lane = [q \in Lanes |-> NoAsk] /\ stray = FALSE

ListStep ==
    \/ \E f \in Filters : Pick(f) \/ Type(f)
    \/ Debounced \/ More
    \/ \E r \in lists : ListAnswered(r) \/ ListFailed(r)

DrawerStep(q) ==
    \/ \E c \in Convs : OpenDetail(q, c)
    \/ RefreshDetail(q) \/ LoadOlder(q) \/ Served(q)
    \/ Opened(q) \/ Refreshed(q) \/ OlderLoaded(q) \/ Failed(q)

Next ==
    \/ \E i \in Times, c \in Convs : Arrive(i, c)
    \/ Regroup
    \/ ListStep
    \/ \E q \in Lanes : DrawerStep(q)
    \/ Close

Spec == Init /\ [][Next]_vars

-----------------------------------------------------------------------------
(* Properties *)

\* However often the list is reloaded and extended, whatever comes in and is
\* edited between its pages and however late they are: outside the 350 ms after a
\* key is pressed, each card matched what is chosen on the page at some time since
\* the last reload, and no conversation has two.  That it still matches is not
\* promised: a card is shown as waiting until a reload after the reply.
CardsAreCurrent == ~typed =>
    /\ \A k \in DOMAIN cards : cards[k] \in seen
    /\ \A k, l \in DOMAIN cards : cards[k] = cards[l] => k = l

\* The drawer shows messages of one conversation, each once and in order, in
\* spite of answers that come late or for a conversation that was left: except
\* that an older page, or a refresh of the same conversation opened again, is
\* put in wherever it comes.
OneConversation == detail # Nil /\ ~stray =>
    /\ \A k \in DOMAIN shown : msgs[shown[k]] = detail
    /\ \A k, l \in DOMAIN shown : k < l => shown[k] < shown[l]

=============================================================================
