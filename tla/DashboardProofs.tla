-------------------------- MODULE DashboardProofs --------------------------
(***************************************************************************)
(* Proofs about the supervisor's page, for any conversations, messages and *)
(* filters, pages of any size, and any number of requests of the drawer.   *)
(*                                                                         *)
(* The list (ListInv): its one request is for the filter that is chosen    *)
(* and goes on where the cards end, what matches that filter by now has    *)
(* been seen to, and every card has a message at or after the cursor.  The *)
(* next page's conversations have none there, so they have no card yet,    *)
(* however many messages have come in.                                     *)
(*                                                                         *)
(* The drawer (DrawerInv): what was asked for in this drawer is of its     *)
(* conversation, and an older page ends before the oldest message shown.   *)
(* A refresh would break that if it reached back before that message.  It  *)
(* does not: there are older messages to ask for only where a full page or *)
(* more is newer (PageAfter), which is all that a refresh returns.         *)
(*                                                                         *)
(* What Sorted returns rests on an order's least elements (Least, Greatest)*)
(* by well-founded minimality, in place of an induction.                   *)
(***************************************************************************)
EXTENDS Dashboard, FiniteSetTheorems, FunctionTheorems, SequenceTheorems, TLAPS

-----------------------------------------------------------------------------
(* The invariant of the list *)

Places   == Times \union {0}
Requests == [filter : Filters, from : Places]

ListType ==
    /\ msgs \in [Times -> Convs \union {Nil}] /\ among \in Groupings
    /\ filter \in Filters /\ typed \in BOOLEAN
    /\ cards \in Seq(Convs) /\ cursor \in Places /\ lists \subseteq Requests
    /\ seen \in SUBSET Convs

\* One request at most, for what comes after the cards, and for what is chosen.
Asked ==
    /\ \A r, s \in lists : r = s
    /\ \A r \in lists : r.from # 0 => r.from = cursor
    /\ ~typed => \A r \in lists : r.filter = filter

\* The cards' last messages are before the cursor, and stay there.
CardsFit ==
    /\ \A k \in DOMAIN cards : cards[k] \in seen
    /\ \A k, l \in DOMAIN cards : cards[k] = cards[l] => k = l
    /\ cursor # 0 => \A k \in DOMAIN cards : \E i \in Of(cards[k]) : cursor <= i

ListInv == ListType /\ Asked /\ (~typed => CardsFit /\ Matches(filter) \subseteq seen)

-----------------------------------------------------------------------------
(* The invariant of the drawer *)

Pages == [items : Seq(Times), next : Places]
Asks  == [kind : {"open", "refresh", "older"}, conv : Convs, from : Places,
          page : {Nil} \union Pages, left : BOOLEAN]

DrawerType ==
    /\ msgs \in [Times -> Convs \union {Nil}]
    /\ detail \in Convs \union {Nil} /\ shown \in Seq(Times) /\ before \in Places
    /\ lane \in [Lanes -> Asks \union {NoAsk}] /\ stray \in BOOLEAN

Increasing(s) == \A k, l \in DOMAIN s : k < l => s[k] < s[l]
AllOf(s, c)   == \A k \in DOMAIN s : s[k] \in Of(c)
From(s, i)    == \A k \in DOMAIN s : i <= s[k]

\* At least a page of a conversation's messages is at a place or after it.
PageAfter(c, i) == MessagePage <= Cardinality({j \in Of(c) : i <= j})

PageFits(page, c, from) ==
    /\ Increasing(page.items) /\ AllOf(page.items, c)
    /\ \A k \in DOMAIN page.items : Behind(page.items[k], from)
    /\ page.next # 0 => /\ Behind(page.next, from)
                        /\ From(page.items, page.next) /\ PageAfter(c, page.next)

\* What is on its way to the drawer
LanesFit == \A q \in Lanes : lane[q] # NoAsk =>
    /\ lane[q].kind = "older" => lane[q].from # 0
    /\ lane[q].kind = "refresh" => lane[q].from = 0
    /\ lane[q].page # Nil => PageFits(lane[q].page, lane[q].conv, lane[q].from)
    /\ detail # Nil /\ ~lane[q].left /\ lane[q].kind # "open" => lane[q].conv = detail

\* What it shows
ShownFits ==
    /\ Increasing(shown) /\ AllOf(shown, detail)
    /\ before # 0 =>
          /\ From(shown, before) /\ PageAfter(detail, before)
          /\ \A q \in Lanes :
                lane[q].kind = "refresh" /\ ~lane[q].left /\ lane[q].page # Nil
                    => From(lane[q].page.items, before)

DrawerInv == DrawerType /\ LanesFit /\ (detail # Nil /\ ~stray => ShownFits)

-----------------------------------------------------------------------------
(* Finite sets of numbers *)

LEMMA Least ==
    ASSUME NEW S \in SUBSET Nat, S # {}
    PROVE  \E m \in S : \A i \in S : m <= i
<1>1. PICK R : R = {p \in Nat \X Nat : p[1] < p[2]}
  OBVIOUS
<1>2. IsWellFoundedOn(R, Nat)
  BY <1>1, NatLessThanWellFounded DEF OpToRel
<1>3. PICK m \in S : \A i \in S : <<i, m>> \notin R
  BY <1>2, WFMin
<1>4. \A i \in S : ~(i < m)
  BY <1>1, <1>3
<1> QED
  BY <1>4

LEMMA Greatest ==
    ASSUME NEW S \in SUBSET Nat, IsFiniteSet(S), S # {}
    PROVE  \E m \in S : \A i \in S : i <= m
<1>1. PICK R : R = StrictSubsetOrdering(S)
  OBVIOUS
<1>2. PICK Bad : Bad = {T \in SUBSET S : T # {} /\ ~\E m \in T : \A i \in T : i <= m}
  OBVIOUS
<1>3. IsWellFoundedOn(R, FiniteSubsetsOf(S))
  BY <1>1, FS_StrictSubsetOrderingWellFounded
<1>4. Bad \subseteq FiniteSubsetsOf(S)
  BY <1>2, FS_Subset DEF FiniteSubsetsOf
<1> SUFFICES ASSUME Bad # {} PROVE FALSE
  BY <1>2
<1>5. PICK T \in Bad : \A U \in Bad : <<U, T>> \notin R
  BY <1>3, <1>4, WFMin
<1>6. PICK x \in T : TRUE
  BY <1>2
<1>7. T \ {x} \notin Bad
  <2>1. <<T \ {x}, T>> \in R
    BY <1>1, <1>2, <1>6 DEF StrictSubsetOrdering
  <2> QED
    BY <1>5, <2>1
<1>8. T \in SUBSET S /\ T \ {x} \in SUBSET S /\ x \in Nat
  BY <1>2
<1>9. CASE T \ {x} = {}
  BY <1>2, <1>8, <1>9
<1>10. CASE T \ {x} # {}
  <2>1. PICK m \in T \ {x} : \A i \in T \ {x} : i <= m
    BY <1>2, <1>7, <1>8, <1>10
  <2>2. CASE x <= m
    BY <1>2, <1>8, <2>1, <2>2
  <2>3. CASE m <= x
    <3>1. \A i \in T : i <= x
      BY <1>8, <2>1, <2>3
    <3> QED
      BY <1>2, <3>1
  <2> QED
    BY <1>8, <2>1, <2>2, <2>3
<1> QED
  BY <1>9, <1>10

-----------------------------------------------------------------------------
(* What Sorted returns *)

Below(f, v) == {k \in DOMAIN f : f[k] < v}
UpTo(f, v)  == {k \in DOMAIN f : f[k] <= v}

LEMMA PartsAreFinite ==
    ASSUME NEW f, IsFiniteSet(DOMAIN f), NEW v
    PROVE  /\ IsFiniteSet(Below(f, v)) /\ Cardinality(Below(f, v)) \in Nat
           /\ IsFiniteSet(UpTo(f, v)) /\ Cardinality(UpTo(f, v)) \in Nat
<1>1. Below(f, v) \in SUBSET DOMAIN f /\ UpTo(f, v) \in SUBSET DOMAIN f
  BY DEF Below, UpTo
<1>2. PICK B, U : B = Below(f, v) /\ U = UpTo(f, v)
  OBVIOUS
<1>3. IsFiniteSet(B) /\ IsFiniteSet(U)
  BY <1>1, <1>2, FS_Subset
<1> QED
  BY <1>2, <1>3, FS_CardinalityType

\* The values of f at a set of its arguments have a greatest.
LEMMA GreatestValue ==
    ASSUME NEW f, IsFiniteSet(DOMAIN f), \A k \in DOMAIN f : f[k] \in Nat,
           NEW K \in SUBSET DOMAIN f, K # {}
    PROVE  \E k \in K : \A l \in K : f[l] <= f[k]
<1>1. PICK V : V = {f[k] : k \in K}
  OBVIOUS
<1>2. V \in SUBSET Nat /\ V # {}
  BY <1>1
<1>3. PICK g : g = [k \in K |-> f[k]]
  OBVIOUS
<1>4. g \in Surjection(K, V)
  BY <1>1, <1>3 DEF Surjection
<1>5. IsFiniteSet(K)
  BY FS_Subset
<1>6. IsFiniteSet(V)
  BY <1>4, <1>5, FS_Surjection
<1>7. PICK m \in V : \A i \in V : i <= m
  BY <1>2, <1>6, Greatest
<1> QED
  BY <1>1, <1>7

\* There is a value at each place.
LEMMA ValueAt ==
    ASSUME NEW f, IsFiniteSet(DOMAIN f), \A k \in DOMAIN f : f[k] \in Nat,
           NEW n \in 1 .. Cardinality(DOMAIN f)
    PROVE  \E v \in Range(f) : Cardinality(Below(f, v)) < n /\ Cardinality(UpTo(f, v)) >= n
<1>1. PICK C : C = {v \in Range(f) : Cardinality(UpTo(f, v)) >= n}
  OBVIOUS
<1>2. Range(f) \in SUBSET Nat /\ Cardinality(DOMAIN f) \in Nat /\ n \in Nat
  BY FS_CardinalityType DEF Range
<1>3. C # {}
  <2>1. DOMAIN f # {}
    BY <1>2, FS_EmptySet
  <2>2. PICK k \in DOMAIN f : \A l \in DOMAIN f : f[l] <= f[k]
    BY <2>1, GreatestValue
  <2>3. UpTo(f, f[k]) = DOMAIN f
    BY <2>2 DEF UpTo
  <2> QED
    BY <1>1, <1>2, <2>3 DEF Range
<1>4. PICK v \in C : \A u \in C : v <= u
  BY <1>1, <1>2, <1>3, Least
<1>5. Cardinality(Below(f, v)) < n
  <2>1. CASE Below(f, v) = {}
    BY <1>2, <2>1, FS_EmptySet
  <2>2. CASE Below(f, v) # {}
    <3>1. PICK k \in Below(f, v) : \A l \in Below(f, v) : f[l] <= f[k]
      BY <2>2, GreatestValue DEF Below
    <3>2. f[k] \in Range(f) /\ f[k] < v /\ v \in Nat /\ f[k] \in Nat
      BY <1>1, <1>2, <3>1 DEF Below, Range
    <3>3. Below(f, v) = UpTo(f, f[k])
      BY <3>1, <3>2 DEF Below, UpTo
    <3>4. f[k] \notin C
      BY <1>4, <3>2
    <3> QED
      BY <1>1, <1>2, <3>2, <3>3, <3>4, PartsAreFinite
  <2> QED
    BY <2>1, <2>2
<1> QED
  BY <1>1, <1>5

LEMMA SortedHas ==
    ASSUME NEW f, IsFiniteSet(DOMAIN f), \A k \in DOMAIN f : f[k] \in Nat
    PROVE  /\ Sorted(f) \in Seq(Range(f)) /\ Len(Sorted(f)) = Cardinality(DOMAIN f)
           /\ \A n \in 1 .. Cardinality(DOMAIN f) :
                 /\ Sorted(f)[n] \in Range(f)
                 /\ Cardinality(Below(f, Sorted(f)[n])) < n
                 /\ Cardinality(UpTo(f, Sorted(f)[n])) >= n
<1>1. PICK s, N : s = Sorted(f) /\ N = Cardinality(DOMAIN f)
  OBVIOUS
<1>2. s = [n \in 1 .. N |->
              CHOOSE v \in Range(f) : Cardinality(Below(f, v)) < n /\ Cardinality(UpTo(f, v)) >= n]
  BY <1>1 DEF Sorted, Below, UpTo
<1>3. ASSUME NEW n \in 1 .. N
      PROVE  /\ s[n] \in Range(f) /\ Cardinality(Below(f, s[n])) < n
             /\ Cardinality(UpTo(f, s[n])) >= n
  <2>1. s[n] = CHOOSE v \in Range(f) :
                  Cardinality(Below(f, v)) < n /\ Cardinality(UpTo(f, v)) >= n
    BY <1>2
  <2>2. \E v \in Range(f) : Cardinality(Below(f, v)) < n /\ Cardinality(UpTo(f, v)) >= n
    BY <1>1, ValueAt
  <2> QED
    BY <2>1, <2>2
<1>4. N \in Nat
  BY <1>1, FS_CardinalityType
<1>5. s \in [1 .. N -> Range(f)]
  BY <1>2, <1>3
<1>6. s \in Seq(Range(f)) /\ Len(s) = N
  BY <1>4, <1>5
<1> QED
  BY <1>1, <1>3, <1>6

LEMMA SortedOrder ==
    ASSUME NEW f, IsFiniteSet(DOMAIN f), \A k \in DOMAIN f : f[k] \in Nat,
           \A k, l \in DOMAIN f : f[k] = f[l] => k = l
    PROVE  Increasing(Sorted(f))
<1>1. PICK s, N : s = Sorted(f) /\ N = Cardinality(DOMAIN f)
  OBVIOUS
<1>2. DOMAIN s = 1 .. N /\ N \in Nat
  BY <1>1, SortedHas, FS_CardinalityType
<1>3. Range(f) \subseteq Nat
  BY DEF Range
<1> SUFFICES ASSUME NEW m \in 1 .. N, NEW n \in 1 .. N, m < n, ~(s[m] < s[n]) PROVE FALSE
  BY <1>1, <1>2 DEF Increasing
<1>4. PICK v, w : v = s[m] /\ w = s[n]
  OBVIOUS
<1>5. /\ v \in Range(f) /\ w \in Range(f) /\ v \in Nat /\ w \in Nat
      /\ Cardinality(Below(f, v)) < m /\ Cardinality(UpTo(f, w)) >= n
  BY <1>1, <1>3, <1>4, SortedHas
<1>6. PICK B, U : B = Below(f, v) /\ U = UpTo(f, w)
  OBVIOUS
<1>7. /\ IsFiniteSet(B) /\ Cardinality(B) \in Nat /\ IsFiniteSet(U) /\ Cardinality(U) \in Nat
      /\ Cardinality(B) < m /\ Cardinality(U) >= n
  BY <1>5, <1>6, PartsAreFinite
<1>8. PICK x \in DOMAIN f : f[x] = v
  BY <1>5 DEF Range
<1>9. PICK D : D = B \union {x}
  OBVIOUS
<1>10. IsFiniteSet(D) /\ Cardinality(D) <= Cardinality(B) + 1 /\ Cardinality(D) \in Nat
  <2>1. IsFiniteSet(D)
        /\ Cardinality(D) = IF x \in B THEN Cardinality(B) ELSE Cardinality(B) + 1
    BY <1>7, <1>9, FS_AddElement
  <2> QED
    BY <1>7, <2>1
<1>11. U \in SUBSET D
  BY <1>3, <1>4, <1>5, <1>6, <1>8, <1>9 DEF Below, UpTo
<1>12. Cardinality(U) <= Cardinality(D)
  BY <1>10, <1>11, FS_Subset
<1> QED
  BY <1>2, <1>7, <1>10, <1>12

-----------------------------------------------------------------------------
(* What a page holds *)

FromOn(S, i) == {j \in S : i <= j}

LEMMA PageIs ==
    ASSUME NEW S \in SUBSET Nat, IsFiniteSet(S), NEW n \in Nat \ {0}
    PROVE  /\ Page(S, n) \in Seq(S) /\ Increasing(Page(S, n))
           /\ \A k \in DOMAIN Page(S, n) : Page(S, n)[k] \in Newest(S, n)
           /\ Cardinality(S) > n =>
                 /\ 1 \in DOMAIN Page(S, n) /\ From(Page(S, n), Page(S, n)[1])
                 /\ n <= Cardinality(FromOn(S, Page(S, n)[1]))
<1>1. PICK T, f, p : T = Newest(S, n) /\ f = [i \in T |-> i] /\ p = Sorted(f) /\ p = Page(S, n)
  BY DEF Page
<1>2. T \in SUBSET S /\ IsFiniteSet(T)
  <2>1. T \in SUBSET S
    BY <1>1 DEF Newest
  <2> QED
    BY <2>1, FS_Subset
<1>3. IsFiniteSet(DOMAIN f) /\ (\A k \in DOMAIN f : f[k] \in Nat) /\ Range(f) = T /\ DOMAIN f = T
      /\ \A k, l \in DOMAIN f : f[k] = f[l] => k = l
  BY <1>1, <1>2 DEF Range
<1>4. Increasing(p)
  <2>1. Increasing(Sorted(f))
    BY <1>3, SortedOrder
  <2> QED
    BY <1>1, <2>1
<1>5. p \in Seq(T) /\ Len(p) = Cardinality(T) /\ DOMAIN p = 1 .. Cardinality(T)
  <2>1. Sorted(f) \in Seq(Range(f)) /\ Len(Sorted(f)) = Cardinality(DOMAIN f)
    BY <1>3, SortedHas
  <2>2. p \in Seq(T) /\ Len(p) = Cardinality(T)
    BY <1>1, <1>3, <2>1
  <2> QED
    BY <2>2, LenProperties
<1>6. p \in Seq(S) /\ \A k \in DOMAIN p : p[k] \in T
  <2>1. Seq(T) \subseteq Seq(S)
    BY <1>2, SeqMonotonic
  <2> QED
    BY <1>5, <2>1, ElementOfSeq
<1>8. \A i \in S : i \in Nat
  OBVIOUS
<1>7. ASSUME Cardinality(S) > n
      PROVE  /\ 1 \in DOMAIN p /\ From(p, p[1]) /\ n <= Cardinality(FromOn(S, p[1]))
  <2>1. Cardinality(S) \in Nat /\ Cardinality(T) \in Nat
    BY <1>2, FS_CardinalityType
  <2>2. S # {}
    BY <1>7, <2>1, FS_EmptySet
  <2>3. T # {}
    <3>1. PICK m \in S : \A i \in S : i <= m
      BY <2>2, Greatest
    <3>2. {j \in S : j > m} = {}
      <4>1. \A i \in S : i \in Nat /\ m \in Nat /\ i <= m
        BY <1>8, <3>1
      <4>2. \A i \in S : ~(i > m)
        BY <4>1
      <4> QED
        BY <4>2
    <3>3. m \in T
      BY <1>1, <3>2, FS_EmptySet DEF Newest
    <3> QED
      BY <3>3
  <2>4. 1 \in DOMAIN p
    BY <1>2, <1>5, <2>1, <2>3, FS_EmptySet
  <2>5. From(p, p[1])
    <3>1. ASSUME NEW k \in DOMAIN p PROVE p[1] <= p[k]
      <4>1. p[1] \in Nat /\ p[k] \in Nat
        BY <1>2, <1>6, <2>4
      <4>2. k = 1 \/ 1 < k
        BY <1>5, <2>1
      <4> QED
        BY <1>4, <2>4, <4>1, <4>2 DEF Increasing
    <3> QED
      BY <3>1 DEF From
  <2>6. p[1] \in S /\ \A i \in T : p[1] <= i
    <3>1. Cardinality(Below(f, p[1])) < 1
      BY <1>1, <1>3, <1>5, <2>4, SortedHas
    <3>2. Below(f, p[1]) = {}
      BY <1>3, <3>1, PartsAreFinite, FS_EmptySet
    <3> QED
      <4>1. p[1] \in S /\ p[1] \in Nat
        BY <1>2, <1>6, <2>4
      <4>2. \A i \in T : ~(f[i] < p[1]) /\ f[i] = i
        BY <1>1, <1>3, <3>2 DEF Below
      <4> QED
        BY <1>2, <1>8, <4>1, <4>2
  <2>9. p[1] \in Nat /\ \A j \in S : j \in Nat /\ (j < p[1] \/ p[1] <= j)
    <3>1. p[1] \in Nat
      BY <1>8, <2>6
    <3> QED
      BY <1>8, <3>1
  <2>7. ASSUME Cardinality(FromOn(S, p[1])) < n PROVE FALSE
    <3>1. PICK L, F : L = {j \in S : j < p[1]} /\ F = FromOn(S, p[1])
      OBVIOUS
    <3>2. L \in SUBSET S /\ L \in SUBSET Nat /\ IsFiniteSet(L)
      <4>1. L \in SUBSET S
        BY <3>1
      <4> QED
        BY <4>1, FS_Subset
    <3>3. L # {}
      <4>1. CASE L = {}
        <5>1. \A j \in S : p[1] <= j
          BY <2>9, <3>1, <4>1
        <5>2. F = S
          BY <3>1, <5>1 DEF FromOn
        <5> QED
          BY <1>7, <2>1, <2>7, <3>1, <5>2
      <4> QED
        BY <4>1
    <3>4. PICK x \in L : \A i \in L : i <= x
      BY <3>2, <3>3, Greatest
    <3>5. {j \in S : j > x} = F
      <4>1. x \in S /\ x \in Nat /\ x < p[1]
        BY <1>8, <3>1, <3>4
      <4>2. \A j \in S : (j < p[1] => j <= x) /\ j \in Nat
        BY <1>8, <3>1, <3>4
      <4>3. \A j \in S : j > x <=> p[1] <= j
        BY <2>9, <4>1, <4>2
      <4> QED
        BY <3>1, <4>3 DEF FromOn
    <3>6. x \in T
      BY <1>1, <2>7, <3>1, <3>2, <3>5 DEF Newest
    <3> QED
      <4>1. x \in Nat /\ x < p[1] /\ p[1] <= x
        BY <1>8, <2>6, <3>1, <3>4, <3>6
      <4> QED
        BY <2>9, <4>1
  <2>8. Cardinality(FromOn(S, p[1])) \in Nat
    <3>1. PICK F : F = FromOn(S, p[1])
      OBVIOUS
    <3>2. F \in SUBSET S
      BY <3>1 DEF FromOn
    <3> QED
      BY <3>1, <3>2, FS_Subset, FS_CardinalityType
  <2> QED
    BY <2>4, <2>5, <2>7, <2>8
<1> QED
  BY <1>1, <1>4, <1>6, <1>7

-----------------------------------------------------------------------------
(* What the service answers *)

USE DashboardAssumption DEF DashboardAssumption

LEMMA LatestIs ==
    ASSUME NEW c, Of(c) # {}
    PROVE  Latest(c) \in Of(c) /\ \A j \in Of(c) : j <= Latest(c)
<1>1. Of(c) \in SUBSET Times /\ Of(c) \in SUBSET Nat
  BY DEF Of
<1>2. IsFiniteSet(Of(c))
  BY <1>1, FS_Subset
<1>3. \E m \in Of(c) : \A i \in Of(c) : i <= m
  BY <1>1, <1>2, Greatest
<1> QED
  BY <1>3 DEF Latest

LEMMA Matching ==
    ASSUME among \in Groupings, NEW f \in Filters
    PROVE  Matches(f) \in SUBSET Convs
<1>1. among \in [Filters -> SUBSET Convs]
  OBVIOUS
<1> QED
  BY <1>1 DEF Matches

\* A page of conversations: of those that match, each once, with the last
\* message before the cursor that was given and not before the next.
LEMMA ConversationsListed ==
    ASSUME ListType, NEW f \in Filters, NEW from \in Places,
           NEW items, NEW next, [items |-> items, next |-> next] = ListConversations(f, from)
    PROVE  /\ items \in Seq(Convs) /\ next \in Places
           /\ \A k \in DOMAIN items :
                 /\ items[k] \in Matches(f)
                 /\ \E i \in Of(items[k]) : next <= i
                 /\ from # 0 => \A i \in Of(items[k]) : i < from
           /\ \A k, l \in DOMAIN items : items[k] = items[l] => k = l
           /\ from # 0 /\ next # 0 => next < from
<1>1. PICK found : found = {i \in Times : \E c \in Matches(f) :
                              Of(c) # {} /\ i = Latest(c) /\ Behind(i, from)}
  OBVIOUS
<1>2. found \in SUBSET Times /\ found \in SUBSET Nat /\ IsFiniteSet(found)
  <2>1. found \in SUBSET Times
    BY <1>1
  <2> QED
    BY <2>1, FS_Subset
<1>3. PICK page : page = Page(found, CardPage)
  OBVIOUS
<1>4. /\ page \in Seq(found) /\ Increasing(page)
      /\ Cardinality(found) > CardPage => 1 \in DOMAIN page /\ From(page, page[1])
  BY <1>2, <1>3, PageIs
<1>5. next = NextOf(found, page, CardPage)
      /\ items = Reverse([k \in DOMAIN page |-> msgs[page[k]]])
  BY <1>1, <1>3 DEF ListConversations
<1>6. PICK N : N = Len(page) /\ N \in Nat /\ DOMAIN page = 1 .. N
               /\ \A k \in 1 .. N : page[k] \in found
  BY <1>4, LenProperties, ElementOfSeq
<1>7. items = [k \in 1 .. N |-> msgs[page[N - k + 1]]]
  <2>1. PICK row : row = [k \in 1 .. N |-> msgs[page[k]]]
    OBVIOUS
  <2>2. items = Reverse(row) /\ Len(row) = N
    BY <1>5, <1>6, <2>1
  <2>3. Reverse(row) = [k \in 1 .. N |-> row[N - k + 1]]
    BY <2>2 DEF Reverse
  <2>4. \A k \in 1 .. N : N - k + 1 \in 1 .. N /\ row[N - k + 1] = msgs[page[N - k + 1]]
    BY <1>6, <2>1
  <2> QED
    BY <2>2, <2>3, <2>4
<1>8. ASSUME NEW i \in found
      PROVE  /\ msgs[i] \in Matches(f) /\ msgs[i] \in Convs /\ i \in Of(msgs[i])
             /\ Behind(i, from) /\ \A j \in Of(msgs[i]) : j <= i
  <2>1. PICK c \in Matches(f) : Of(c) # {} /\ i = Latest(c) /\ Behind(i, from)
    BY <1>1
  <2>2. i \in Of(c) /\ \A j \in Of(c) : j <= i
    BY <2>1, LatestIs
  <2>3. msgs[i] = c
    BY <2>2 DEF Of
  <2>4. c \in Convs
    BY <2>1, Matching DEF ListType
  <2> QED
    BY <2>1, <2>2, <2>3, <2>4
<1>9. \A k \in 1 .. N : N - k + 1 \in 1 .. N /\ page[N - k + 1] \in found
  BY <1>6
<1>10. items \in Seq(Convs) /\ DOMAIN items = 1 .. N
  <2>1. items \in [1 .. N -> Convs]
    BY <1>7, <1>8, <1>9
  <2> QED
    BY <1>6, <2>1
<1>11. next \in Places /\ (from # 0 /\ next # 0 => next < from)
       /\ \A k \in 1 .. N : next <= page[k]
  <2>1. CASE Cardinality(found) > CardPage
    <3>1. next = page[1] /\ page[1] \in found
      BY <1>4, <1>5, <1>6, <2>1 DEF NextOf
    <3>2. page[1] \in Places /\ (from # 0 => page[1] < from)
      BY <1>2, <1>8, <3>1 DEF Places, Behind
    <3> QED
      BY <1>4, <1>6, <2>1, <3>1, <3>2 DEF From
  <2>2. CASE ~(Cardinality(found) > CardPage)
    <3>1. next = 0
      BY <1>5, <2>2 DEF NextOf
    <3>2. \A k \in 1 .. N : 0 <= page[k]
      <4>1. \A i \in found : i \in Nat
        BY <1>2
      <4>2. \A k \in 1 .. N : page[k] \in Nat
        BY <1>6, <4>1
      <4> QED
        BY <4>2
    <3> QED
      BY <3>1, <3>2 DEF Places
  <2> QED
    BY <2>1, <2>2
<1>12. ASSUME NEW k \in 1 .. N
       PROVE  /\ items[k] \in Matches(f) /\ \E i \in Of(items[k]) : next <= i
              /\ from # 0 => \A i \in Of(items[k]) : i < from
  <2>1. PICK i \in found : i = page[N - k + 1] /\ items[k] = msgs[i] /\ next <= i
    BY <1>7, <1>9, <1>11
  <2>2. items[k] \in Matches(f) /\ i \in Of(items[k])
        /\ Behind(i, from) /\ \A j \in Of(items[k]) : j <= i
    BY <1>8, <2>1
  <2>3. ASSUME from # 0, NEW j \in Of(items[k]) PROVE j < from
    <3>1. j \in Nat /\ i \in Nat /\ from \in Nat /\ j <= i /\ i < from
      BY <1>2, <2>2, <2>3 DEF Of, Behind, Places
    <3> QED
      BY <3>1
  <2> QED
    BY <2>1, <2>2, <2>3
<1>13. ASSUME NEW k \in 1 .. N, NEW l \in 1 .. N, items[k] = items[l] PROVE k = l
  <2>1. PICK i \in found : i = page[N - k + 1] /\ items[k] = msgs[i]
    BY <1>7, <1>9
  <2>2. PICK j \in found : j = page[N - l + 1] /\ items[l] = msgs[j]
    BY <1>7, <1>9
  <2>3. i \in Of(msgs[j]) /\ j \in Of(msgs[i])
    BY <1>8, <1>13, <2>1, <2>2
  <2>4. i <= j /\ j <= i /\ i \in Nat /\ j \in Nat
    BY <1>2, <1>8, <2>3
  <2>5. page[N - k + 1] = page[N - l + 1]
    BY <2>1, <2>2, <2>4
  <2>6. ~(N - k + 1 < N - l + 1) /\ ~(N - l + 1 < N - k + 1)
    <3>1. PICK x, y \in 1 .. N : x = N - k + 1 /\ y = N - l + 1
      BY <1>9
    <3>2. page[x] = i /\ page[y] = i
      BY <2>1, <2>5, <3>1
    <3>3. ~(x < y) /\ ~(y < x)
      BY <1>4, <1>6, <2>4, <3>2 DEF Increasing
    <3> QED
      BY <3>1, <3>3
  <2> QED
    BY <1>6, <2>6
<1> QED
  BY <1>10, <1>11, <1>12, <1>13

-----------------------------------------------------------------------------
(* The list: every step keeps its invariant *)

LEMMA ListInit == Init => ListInv
<1> SUFFICES ASSUME Init PROVE ListInv
  OBVIOUS
<1>1. cards \in Seq(Convs) /\ DOMAIN cards = {}
  BY DEF Init
<1>2. ListType
  BY <1>1, Matching DEF Init, ListType, Places
<1>3. Asked /\ CardsFit
  BY <1>1 DEF Init, Asked, CardsFit
<1> QED
  BY <1>2, <1>3 DEF ListInv, Init

\* A message comes in, or what matches is edited: no message leaves its
\* conversation, and what matches is seen to from now on.
LEMMA ListChanges ==
    ASSUME ListInv, UNCHANGED <<filter, typed, cards, cursor, lists>>,
           msgs' \in [Times -> Convs \union {Nil}], among' \in Groupings,
           \A j \in Times : msgs[j] \in Convs => msgs'[j] = msgs[j],
           seen' = seen \union Matches(filter)'
    PROVE  ListInv'
<1>1. filter \in Filters /\ ListType /\ Asked
  BY DEF ListInv, ListType
<1>2. Matches(filter)' \in SUBSET Convs
  <2>1. among' \in [Filters -> SUBSET Convs] /\ filter' = filter
    OBVIOUS
  <2>2. Matches(filter)' \subseteq among'[filter]
    BY <2>1 DEF Matches
  <2> QED
    BY <1>1, <2>1, <2>2
<1>3. seen' \in SUBSET Convs
  BY <1>1, <1>2 DEF ListType
<1>4. ListType' /\ Asked'
  BY <1>1, <1>3 DEF ListType, Asked
<1>5. ASSUME ~typed, CardsFit PROVE CardsFit'
  <2>1. \A k \in DOMAIN cards : cards[k] \in Convs
    BY <1>1 DEF ListType
  <2>2. \A k \in DOMAIN cards : \A j \in Of(cards[k]) : j \in Of(cards[k])'
    BY <2>1 DEF Of
  <2> QED
    BY <1>5, <2>2 DEF CardsFit
<1> QED
  BY <1>4, <1>5 DEF ListInv

LEMMA ListArrive ==
    ASSUME ListInv, NEW i \in Times, NEW c \in Convs, Arrive(i, c)
    PROVE  ListInv'
<1>1. msgs \in [Times -> Convs \union {Nil}] /\ among' \in Groupings
  BY DEF ListInv, ListType, Arrive
<1>2. /\ msgs' \in [Times -> Convs \union {Nil}]
      /\ \A j \in Times : msgs[j] \in Convs => msgs'[j] = msgs[j]
  BY <1>1 DEF Arrive
<1> QED
  BY <1>1, <1>2, ListChanges DEF Arrive

LEMMA ListRegroup ==
    ASSUME ListInv, Regroup
    PROVE  ListInv'
<1>1. msgs' = msgs /\ msgs \in [Times -> Convs \union {Nil}]
  BY DEF ListInv, ListType, Regroup
<1> QED
  BY <1>1, ListChanges DEF Regroup

LEMMA ListReload ==
    ASSUME ListInv, NEW f \in Filters, Reload(f), UNCHANGED <<msgs, among>>,
           typed' \in BOOLEAN
    PROVE  ListInv'
<1>1. /\ filter' = f /\ cards' = <<>> /\ cursor' = 0
      /\ lists' = {Request(f, 0)} /\ seen' = Matches(f)
  BY DEF Reload, Alive
<1>2. Request(f, 0) \in Requests /\ Request(f, 0).from = 0 /\ Request(f, 0).filter = f
  BY DEF Request, Requests, Places
<1>3. ListType'
  BY <1>1, <1>2, Matching DEF ListInv, ListType, Places
<1>4. Asked'
  BY <1>1, <1>2 DEF Asked
<1>5. CardsFit'
  BY <1>1 DEF CardsFit
<1>6. Matches(filter)' = seen'
  BY <1>1 DEF Matches, Of, Latest
<1> QED
  BY <1>3, <1>4, <1>5, <1>6 DEF ListInv

LEMMA ListMore ==
    ASSUME ListInv, More
    PROVE  ListInv'
<1>1. /\ lists' = {Request(filter, cursor)}
      /\ UNCHANGED <<msgs, among, filter, typed, cards, cursor, seen>>
  BY DEF More, Alive
<1>2. /\ Request(filter, cursor) \in Requests /\ Request(filter, cursor).from = cursor
      /\ Request(filter, cursor).filter = filter
  BY DEF Request, Requests, ListInv, ListType
<1>3. ListType' /\ Asked'
  BY <1>1, <1>2 DEF ListInv, ListType, Asked
<1>4. CardsFit => CardsFit'
  BY <1>1 DEF CardsFit, Of
<1>5. Matches(filter)' = Matches(filter)
  BY <1>1 DEF Matches, Of, Latest
<1> QED
  BY <1>1, <1>3, <1>4, <1>5 DEF ListInv

LEMMA ListAnswer ==
    ASSUME ListInv, NEW r \in lists, ListAnswered(r)
    PROVE  ListInv'
<1>1. PICK items, next :
        /\ [items |-> items, next |-> next] = ListConversations(r.filter, r.from)
        /\ ListConversations(r.filter, r.from).items = items
        /\ ListConversations(r.filter, r.from).next = next
  BY DEF ListConversations
<1>2. /\ cards' = IF r.from = 0 THEN items ELSE cards \o items
      /\ cursor' = next /\ lists' = lists \ {r}
      /\ UNCHANGED <<msgs, among, filter, typed, seen>>
  BY <1>1 DEF ListAnswered
<1>3. r.filter \in Filters /\ r.from \in Places /\ ListType /\ Asked
  BY DEF ListInv, ListType, Requests
<1>4. /\ items \in Seq(Convs) /\ next \in Places
      /\ \A k \in DOMAIN items :
            /\ items[k] \in Matches(r.filter)
            /\ \E i \in Of(items[k]) : next <= i
            /\ r.from # 0 => \A i \in Of(items[k]) : i < r.from
      /\ \A k, l \in DOMAIN items : items[k] = items[l] => k = l
      /\ r.from # 0 /\ next # 0 => next < r.from
  BY <1>1, <1>3, ConversationsListed
<1>5. lists' = {}
  BY <1>2, <1>3 DEF Asked
<1>6. Asked'
  BY <1>5 DEF Asked
<1>7. cards \in Seq(Convs) /\ cards' \in Seq(Convs)
  BY <1>2, <1>3, <1>4, ConcatProperties DEF ListType
<1>8. ListType'
  BY <1>2, <1>3, <1>4, <1>5, <1>7 DEF ListType
<1>9. ASSUME ~typed PROVE CardsFit'
  <2>1. /\ r.filter = filter /\ CardsFit /\ (r.from # 0 => r.from = cursor)
        /\ Matches(r.filter) \subseteq seen
    BY <1>3, <1>9 DEF ListInv, Asked
  <2>2. \A c : Of(c)' = Of(c)
    BY <1>2 DEF Of
  <2>3. CASE r.from = 0
    BY <1>2, <1>4, <2>1, <2>2, <2>3 DEF CardsFit
  <2>4. CASE r.from # 0
    <3>1. PICK both : both = cards \o items
      OBVIOUS
    <3>2. PICK M, N : M = Len(cards) /\ N = Len(items) /\ M \in Nat /\ N \in Nat
                      /\ DOMAIN cards = 1 .. M /\ DOMAIN items = 1 .. N
      BY <1>4, <1>7, LenProperties
    <3>3. /\ DOMAIN both = 1 .. M + N
          /\ \A k \in 1 .. M + N : both[k] = IF k <= M THEN cards[k] ELSE items[k - M]
      <4>1. both \in Seq(Convs) /\ Len(both) = M + N
            /\ \A k \in 1 .. M + N : both[k] = IF k <= M THEN cards[k] ELSE items[k - M]
        BY <1>4, <1>7, <3>1, <3>2, ConcatProperties
      <4> QED
        BY <4>1, LenProperties
    <3>4. \A k \in 1 .. M + N : k \in 1 .. M \/ (k > M /\ k - M \in 1 .. N)
      BY <3>2
    <3>5. ASSUME NEW k \in 1 .. M + N
          PROVE  both[k] \in seen /\ \E i \in Of(both[k]) : next <= i
      <4>1. CASE k \in 1 .. M
        <5>1. both[k] = cards[k] /\ k \in DOMAIN cards
          BY <3>2, <3>3, <4>1
        <5>2. PICK i \in Of(cards[k]) : cursor <= i
          BY <2>1, <2>4, <5>1 DEF CardsFit
        <5>3. next <= i
          <6>1. i \in Nat /\ cursor \in Nat /\ next \in Nat
            BY <1>3, <1>4, <5>2 DEF Of, ListType, Places
          <6> QED
            BY <1>4, <2>1, <2>4, <5>2, <6>1
        <5> QED
          BY <2>1, <5>1, <5>2, <5>3 DEF CardsFit
      <4>2. CASE k > M /\ k - M \in 1 .. N
        <5>1. both[k] = items[k - M] /\ k - M \in DOMAIN items
          BY <3>2, <3>3, <4>2
        <5> QED
          BY <1>4, <2>1, <5>1
      <4> QED
        BY <3>4, <4>1, <4>2
    <3>6. ASSUME NEW k \in DOMAIN cards, NEW l \in DOMAIN items PROVE cards[k] # items[l]
      <4>1. PICK i \in Of(cards[k]) : cursor <= i
        BY <2>1, <2>4 DEF CardsFit
      <4>2. i \in Nat /\ cursor \in Nat /\ cursor = r.from
        BY <1>3, <2>1, <2>4, <4>1 DEF Of, ListType, Places
      <4> QED
        BY <1>4, <2>4, <4>1, <4>2
    <3>7. ASSUME NEW k \in 1 .. M + N, NEW l \in 1 .. M + N, both[k] = both[l] PROVE k = l
      <4>1. CASE k \in 1 .. M /\ l \in 1 .. M
        BY <2>1, <3>2, <3>3, <3>7, <4>1 DEF CardsFit
      <4>2. CASE k \in 1 .. M /\ l > M /\ l - M \in 1 .. N
        <5>1. both[k] = cards[k] /\ both[l] = items[l - M]
          BY <3>2, <3>3, <4>2
        <5> QED
          BY <3>2, <3>6, <3>7, <4>2, <5>1
      <4>3. CASE l \in 1 .. M /\ k > M /\ k - M \in 1 .. N
        <5>1. both[l] = cards[l] /\ both[k] = items[k - M]
          BY <3>2, <3>3, <4>3
        <5> QED
          BY <3>2, <3>6, <3>7, <4>3, <5>1
      <4>4. CASE k > M /\ k - M \in 1 .. N /\ l > M /\ l - M \in 1 .. N
        <5>1. both[l] = items[l - M] /\ both[k] = items[k - M]
          BY <3>2, <3>3, <4>4
        <5>2. k - M = l - M
          BY <1>4, <3>2, <3>7, <4>4, <5>1
        <5> QED
          BY <3>2, <5>2
      <4> QED
        BY <3>4, <4>1, <4>2, <4>3, <4>4
    <3>8. cards' = both /\ cursor' = next /\ seen' = seen
      BY <1>2, <2>4, <3>1
    <3> QED
      BY <2>2, <3>3, <3>5, <3>7, <3>8 DEF CardsFit
  <2> QED
    BY <2>3, <2>4
<1>10. Matches(filter)' = Matches(filter)
  BY <1>2 DEF Matches, Of, Latest
<1> QED
  BY <1>2, <1>6, <1>8, <1>9, <1>10 DEF ListInv

LEMMA ListOther ==
    ASSUME ListInv, UNCHANGED <<msgs, among, filter, typed, cards, cursor, seen>>,
           lists' \subseteq lists
    PROVE  ListInv'
<1>1. Matches(filter)' = Matches(filter)
  BY DEF Matches, Of, Latest
<1> QED
  BY <1>1 DEF ListInv, ListType, Asked, CardsFit, Of

LEMMA ListNext == ListInv /\ [Next]_vars => ListInv'
<1> SUFFICES ASSUME ListInv, [Next]_vars PROVE ListInv'
  OBVIOUS
<1>1. ASSUME NEW i \in Times, NEW c \in Convs, Arrive(i, c) PROVE ListInv'
  BY <1>1, ListArrive
<1>9. CASE Regroup
  BY <1>9, ListRegroup
<1>2. ASSUME NEW f \in Filters, Pick(f) PROVE ListInv'
  BY <1>2, ListReload DEF Pick, ListInv, ListType
<1>3. ASSUME NEW f \in Filters, Type(f) PROVE ListInv'
  BY <1>3 DEF Type, ListInv, ListType, Asked
<1>4. CASE Debounced
  BY <1>4, ListReload DEF Debounced, ListInv, ListType
<1>5. CASE More
  BY <1>5, ListMore
<1>6. ASSUME NEW r \in lists, ListAnswered(r) PROVE ListInv'
  BY <1>6, ListAnswer
<1>7. ASSUME NEW r \in lists, ListFailed(r) PROVE ListInv'
  BY <1>7, ListOther DEF ListFailed
<1>8. CASE (\E q \in Lanes : DrawerStep(q)) \/ Close \/ UNCHANGED vars
  <2>1. UNCHANGED <<msgs, among, list>>
    BY <1>8 DEF DrawerStep, OpenDetail, RefreshDetail, LoadOlder, Served, Opened, Refreshed,
                OlderLoaded, Failed, Close, vars
  <2> QED
    BY <2>1, ListOther DEF list
<1> QED
  BY <1>1, <1>2, <1>3, <1>4, <1>5, <1>6, <1>7, <1>8, <1>9 DEF Next, ListStep

\* The list's request and cards fit each other and, after the 350 ms, what matched
\* the filter at some time since the last reload.
THEOREM ListFits == Spec => []ListInv
<1> QED
  BY ListInit, ListNext, PTL DEF Spec

\* CardsAreCurrent: loadConversations shows conversations that matched the chosen
\* filter at some time since the last reload, each once, for every order of clicks,
\* answers, messages and edits.
THEOREM CardsCurrent == Spec => []CardsAreCurrent
<1>1. ListInv => CardsAreCurrent
  BY DEF ListInv, CardsFit, CardsAreCurrent
<1> QED
  BY <1>1, ListFits, PTL

-----------------------------------------------------------------------------
(* Pages of messages *)

LEMMA SomeOfFinite ==
    ASSUME NEW c, NEW i
    PROVE  LET S == {j \in Of(c) : i <= j} IN IsFiniteSet(S) /\ Cardinality(S) \in Nat
<1>1. PICK S : S = {j \in Of(c) : i <= j}
  OBVIOUS
<1>2. S \in SUBSET Times
  BY <1>1 DEF Of
<1>3. IsFiniteSet(S)
  BY <1>2, FS_Subset
<1> QED
  BY <1>1, <1>3, FS_CardinalityType

LEMMA MessagesListed ==
    ASSUME NEW c \in Convs, NEW from \in Places, NEW page, page = ListMessages(c, from)
    PROVE  /\ page \in Pages /\ PageFits(page, c, from)
           /\ \A b \in Places \ {0} : from = 0 /\ PageAfter(c, b) => From(page.items, b)
<1>1. PICK found : found = {i \in Of(c) : Behind(i, from)}
  OBVIOUS
<1>2. found \in SUBSET Of(c) /\ found \in SUBSET Times /\ found \in SUBSET Nat /\ IsFiniteSet(found)
  <2>1. found \in SUBSET Times /\ found \in SUBSET Of(c)
    BY <1>1 DEF Of
  <2> QED
    BY <2>1, FS_Subset
<1>3. PICK s : s = Page(found, MessagePage)
  OBVIOUS
<1>4. /\ s \in Seq(found) /\ Increasing(s) /\ \A k \in DOMAIN s : s[k] \in Newest(found, MessagePage)
      /\ Cardinality(found) > MessagePage =>
            /\ 1 \in DOMAIN s /\ From(s, s[1])
            /\ MessagePage <= Cardinality(FromOn(found, s[1]))
  BY <1>2, <1>3, PageIs
<1>5. PICK n : n = NextOf(found, s, MessagePage)
  OBVIOUS
<1>6. page = [items |-> s, next |-> n] /\ page.items = s /\ page.next = n
  BY <1>1, <1>3, <1>5 DEF ListMessages
<1>7. s \in Seq(Times) /\ \A k \in DOMAIN s : s[k] \in found
  <2>1. Seq(found) \subseteq Seq(Times)
    BY <1>2, SeqMonotonic
  <2>2. DOMAIN s = 1 .. Len(s)
    BY <1>4, LenProperties
  <2> QED
    BY <1>4, <2>1, <2>2, ElementOfSeq
<1>8. n \in Places /\ (n # 0 => Behind(n, from) /\ From(s, n) /\ PageAfter(c, n))
  <2>1. CASE Cardinality(found) > MessagePage
    <3>1. n = s[1] /\ n \in found
      BY <1>4, <1>5, <1>7, <2>1 DEF NextOf
    <3>2. PICK F, G : F = FromOn(found, n) /\ G = {j \in Of(c) : n <= j}
      OBVIOUS
    <3>3. F \in SUBSET G /\ IsFiniteSet(G) /\ Cardinality(G) \in Nat
      BY <1>2, <3>2, SomeOfFinite DEF FromOn
    <3>4. IsFiniteSet(F) /\ Cardinality(F) <= Cardinality(G)
      BY <3>3, FS_Subset
    <3>5. MessagePage <= Cardinality(G)
      BY <1>4, <2>1, <3>1, <3>2, <3>3, <3>4, FS_CardinalityType
    <3> QED
      BY <1>1, <1>2, <1>4, <2>1, <3>1, <3>2, <3>5 DEF PageAfter, Places
  <2>2. CASE ~(Cardinality(found) > MessagePage)
    BY <1>5, <2>2 DEF NextOf, Places
  <2> QED
    BY <2>1, <2>2
<1>9. PageFits(page, c, from)
  <2>1. AllOf(s, c) /\ \A k \in DOMAIN s : Behind(s[k], from)
    BY <1>1, <1>7 DEF AllOf
  <2> QED
    BY <1>4, <1>6, <1>8, <2>1 DEF PageFits
<1>10. ASSUME NEW b \in Places \ {0}, from = 0, PageAfter(c, b), NEW k \in DOMAIN s
       PROVE  b <= s[k]
  <2>1. found = Of(c)
    BY <1>1, <1>10 DEF Behind
  <2>2. PICK i : i = s[k] /\ i \in Nat /\ b \in Nat
    BY <1>2, <1>7 DEF Places
  <2>3. Cardinality({j \in found : j > i}) < MessagePage
    BY <1>4, <2>2 DEF Newest
  <2> SUFFICES ASSUME i < b PROVE FALSE
    BY <2>2
  <2>4. PICK F, G : F = {j \in Of(c) : b <= j} /\ G = {j \in found : j > i}
    OBVIOUS
  <2>5. \A j \in found : j \in Nat
    BY <1>2
  <2>6. F \in SUBSET G /\ G \in SUBSET found
    BY <2>1, <2>2, <2>4, <2>5
  <2>7. IsFiniteSet(G) /\ IsFiniteSet(F) /\ Cardinality(F) <= Cardinality(G)
    BY <1>2, <2>6, FS_Subset
  <2>8. Cardinality(F) \in Nat /\ Cardinality(G) \in Nat
    BY <2>7, FS_CardinalityType
  <2> QED
    BY <1>10, <2>3, <2>4, <2>7, <2>8 DEF PageAfter
<1> QED
  BY <1>6, <1>7, <1>8, <1>9, <1>10 DEF Pages, From

-----------------------------------------------------------------------------
(* What is merged *)

LEMMA MergedIs ==
    ASSUME shown \in Seq(Times), NEW page \in Seq(Times)
    PROVE  /\ Merged(page) \in Seq(Times)
           /\ \A n \in DOMAIN Merged(page) :
                 \/ \E k \in DOMAIN shown : Merged(page)[n] = shown[k]
                 \/ \E k \in DOMAIN page : Merged(page)[n] = page[k]
           /\ Increasing(shown) /\ Increasing(page) => Increasing(Merged(page))
<1>1. PICK both, kept :
        /\ both = shown \o page
        /\ kept = {k \in DOMAIN both : k > Len(shown) \/ ~Contains(page, both[k])}
  OBVIOUS
<1>2. PICK M, N : M = Len(shown) /\ N = Len(page) /\ M \in Nat /\ N \in Nat
                  /\ DOMAIN shown = 1 .. M /\ DOMAIN page = 1 .. N
  BY LenProperties
<1>3. /\ both \in Seq(Times) /\ DOMAIN both = 1 .. M + N
      /\ \A k \in 1 .. M + N : both[k] = IF k <= M THEN shown[k] ELSE page[k - M]
  <2>1. both \in Seq(Times) /\ Len(both) = M + N
        /\ \A k \in 1 .. M + N : both[k] = IF k <= M THEN shown[k] ELSE page[k - M]
    BY <1>1, <1>2, ConcatProperties
  <2> QED
    BY <2>1, LenProperties
<1>4. PICK f : f = [k \in kept |-> both[k]]
  OBVIOUS
<1>5. kept \in SUBSET (1 .. M + N) /\ IsFiniteSet(kept)
  <2>1. kept \in SUBSET (1 .. M + N) /\ IsFiniteSet(1 .. M + N)
    BY <1>1, <1>2, <1>3, FS_Interval
  <2> QED
    BY <2>1, FS_Subset
<1>6. DOMAIN f = kept /\ (\A k \in kept : f[k] = both[k] /\ f[k] \in Times)
      /\ Range(f) \subseteq Times
  <2>1. \A k \in 1 .. M + N : both[k] \in Times
    <3>1. Len(both) = M + N
      BY <1>1, <1>2, ConcatProperties
    <3> QED
      BY <1>3, <3>1, ElementOfSeq
  <2>2. DOMAIN f = kept /\ \A k \in kept : f[k] = both[k] /\ f[k] \in Times
    BY <1>4, <1>5, <2>1
  <2> QED
    BY <2>2 DEF Range
<1>7. IsFiniteSet(DOMAIN f) /\ \A k \in DOMAIN f : f[k] \in Nat
  BY <1>5, <1>6
<1>8. PICK s : s = Sorted(f) /\ s = Merged(page)
  BY <1>1, <1>4 DEF Merged
<1>9. s \in Seq(Range(f))
  BY <1>7, <1>8, SortedHas
<1>10. s \in Seq(Times) /\ \A n \in DOMAIN s : s[n] \in Range(f)
  BY <1>6, <1>9, SeqMonotonic, ElementOfSeq, LenProperties
<1>11. ASSUME NEW n \in DOMAIN s
       PROVE  (\E k \in DOMAIN shown : s[n] = shown[k]) \/ (\E k \in DOMAIN page : s[n] = page[k])
  <2>1. PICK k \in kept : s[n] = both[k]
    BY <1>6, <1>10 DEF Range
  <2>2. k \in 1 .. M + N
    BY <1>5
  <2>3. CASE k <= M
    <3>1. k \in DOMAIN shown
      BY <1>2, <2>2, <2>3
    <3> QED
      BY <1>3, <2>1, <2>2, <2>3, <3>1
  <2>4. CASE ~(k <= M)
    <3>1. k - M \in DOMAIN page
      BY <1>2, <2>2, <2>4
    <3> QED
      BY <1>3, <2>1, <2>2, <2>4, <3>1
  <2> QED
    BY <2>3, <2>4
<1>12. ASSUME Increasing(shown), Increasing(page) PROVE Increasing(s)
  <2>1. ASSUME NEW k \in kept, NEW l \in kept, both[k] = both[l], k < l PROVE FALSE
    <3>1. k \in 1 .. M + N /\ l \in 1 .. M + N
      BY <1>5
    <3>2. PICK u \in Nat : both[k] = u /\ both[l] = u
      BY <1>6, <2>1
    <3>3. CASE l <= M
      <4>1. k \in DOMAIN shown /\ l \in DOMAIN shown
        BY <1>2, <2>1, <3>1, <3>3
      <4>2. both[k] = shown[k] /\ both[l] = shown[l]
        BY <1>2, <1>3, <2>1, <3>1, <3>3
      <4>3. shown[k] < shown[l]
        BY <1>12, <2>1, <4>1 DEF Increasing
      <4>4. u < u
        BY <3>2, <4>2, <4>3, Zenon
      <4> QED
        BY <4>4
    <3>4. CASE k > M
      <4>1. k - M \in DOMAIN page /\ l - M \in DOMAIN page /\ k - M < l - M
        BY <1>2, <2>1, <3>1, <3>4
      <4>2. ~(k <= M) /\ ~(l <= M)
        BY <1>2, <2>1, <3>1, <3>4
      <4>3. both[k] = page[k - M] /\ both[l] = page[l - M]
        BY <1>3, <3>1, <4>2
      <4>4. page[k - M] < page[l - M]
        BY <1>12, <4>1 DEF Increasing
      <4>5. u < u
        BY <3>2, <4>3, <4>4, Zenon
      <4> QED
        BY <4>5
    <3>5. CASE k <= M /\ l > M
      <4>1. PICK y \in 1 .. N : y = l - M
        <5>1. l - M \in 1 .. N
          BY <1>2, <3>1, <3>5
        <5> QED
          BY <5>1
      <4>2. both[l] = page[y]
        BY <1>2, <1>3, <3>1, <3>5, <4>1
      <4>3. Contains(page, both[k])
        BY <1>2, <2>1, <4>1, <4>2 DEF Contains
      <4> QED
        BY <1>1, <1>2, <3>1, <3>5, <4>3
    <3> QED
      BY <1>2, <3>1, <3>3, <3>4, <3>5
  <2>2. \A k, l \in DOMAIN f : f[k] = f[l] => k = l
    <3>1. ASSUME NEW k \in kept, NEW l \in kept, both[k] = both[l] PROVE k = l
      <4>1. ~(k < l) /\ ~(l < k)
        BY <2>1, <3>1
      <4>2. k \in Nat /\ l \in Nat
        BY <1>2, <1>5
      <4> QED
        BY <4>1, <4>2
    <3> QED
      BY <1>6, <3>1
  <2> QED
    BY <1>7, <1>8, <2>2, SortedOrder
<1> QED
  BY <1>8, <1>10, <1>11, <1>12

-----------------------------------------------------------------------------
(* The drawer: every step keeps its invariant *)

LEMMA AskFields ==
    ASSUME NEW kind \in {"open", "refresh", "older"}, NEW c \in Convs, NEW from \in Places,
           NEW x, x = Ask(kind, c, from)
    PROVE  /\ x \in Asks /\ x # NoAsk
           /\ x.kind = kind /\ x.conv = c /\ x.from = from /\ x.page = Nil /\ ~x.left
<1>1. x = [kind |-> kind, conv |-> c, from |-> from, page |-> Nil, left |-> FALSE]
  BY DEF Ask
<1>2. x.kind = kind /\ x.conv = c /\ x.from = from /\ x.page = Nil /\ ~x.left
  BY <1>1
<1>3. NoAsk.kind = "none"
  BY DEF NoAsk, Ask
<1> QED
  BY <1>1, <1>2, <1>3 DEF Asks

LEMMA LaneType ==
    ASSUME DrawerInv, NEW q \in Lanes, lane[q] # NoAsk
    PROVE  /\ lane[q] \in Asks /\ lane[q].conv \in Convs /\ lane[q].from \in Places
           /\ lane[q].kind \in {"open", "refresh", "older"}
           /\ lane[q].page # Nil => lane[q].page \in Pages
  BY DEF DrawerInv, DrawerType, Asks

LEMMA IdleLane == NoAsk.kind = "none"
  BY DEF NoAsk, Ask

LEMMA DrawerInit == Init => DrawerInv
<1> SUFFICES ASSUME Init PROVE DrawerInv
  OBVIOUS
<1>1. DrawerType
  <2>1. <<>> \in Seq(Times) /\ Nil \in Convs \union {Nil} /\ 0 \in Places
    BY DEF Places
  <2>2. lane \in [Lanes -> Asks \union {NoAsk}]
    BY DEF Init
  <2>3. msgs \in [Times -> Convs \union {Nil}]
    BY DEF Init
  <2> QED
    BY <2>1, <2>2, <2>3 DEF Init, DrawerType
<1>2. LanesFit
  BY DEF Init, LanesFit
<1> QED
  BY <1>1, <1>2 DEF Init, DrawerInv

\* A message that comes in takes none from a conversation.
LEMMA DrawerArrive ==
    ASSUME DrawerInv, NEW i \in Times, NEW c \in Convs, Arrive(i, c)
    PROVE  DrawerInv'
<1>1. /\ msgs' \in [Times -> Convs \union {Nil}] /\ UNCHANGED drawer
      /\ \A j \in Times : msgs[j] \in Convs => msgs'[j] = msgs[j]
  BY DEF DrawerInv, DrawerType, Arrive
<1>2. /\ detail' = detail /\ shown' = shown /\ before' = before /\ lane' = lane
      /\ stray' = stray
  BY <1>1 DEF drawer
<1>3. \A x \in Convs : Of(x) \subseteq Of(x)'
  BY <1>1 DEF Of
<1>4. \A x \in Convs : \A s : AllOf(s, x) => AllOf(s, x)'
  BY <1>3 DEF AllOf
<1>5. \A x \in Convs : \A b \in Places : PageAfter(x, b) => PageAfter(x, b)'
  <2> SUFFICES ASSUME NEW x \in Convs, NEW b \in Places, PageAfter(x, b)
               PROVE  PageAfter(x, b)'
    OBVIOUS
  <2>1. PICK S, T : S = {j \in Of(x) : b <= j} /\ T = {j \in Of(x)' : b <= j}
    OBVIOUS
  <2>2. T \in SUBSET Times /\ S \in SUBSET T
    BY <1>3, <2>1 DEF Of
  <2>3. IsFiniteSet(T) /\ IsFiniteSet(S) /\ Cardinality(S) <= Cardinality(T)
    BY <2>2, FS_Subset
  <2>4. Cardinality(S) \in Nat /\ Cardinality(T) \in Nat
    BY <2>3, FS_CardinalityType
  <2>5. MessagePage <= Cardinality(S)
    BY <2>1 DEF PageAfter
  <2>6. MessagePage <= Cardinality(T)
    BY <2>3, <2>4, <2>5
  <2> QED
    BY <2>1, <2>6 DEF PageAfter
<1>6. DrawerType'
  BY <1>1, <1>2 DEF DrawerInv, DrawerType
<1>7. LanesFit'
  <2>1. ASSUME NEW q \in Lanes, lane[q] # NoAsk, lane[q].page # Nil
        PROVE  PageFits(lane[q].page, lane[q].conv, lane[q].from)'
    <3>1. /\ lane[q].conv \in Convs /\ lane[q].page.next \in Places
          /\ PageFits(lane[q].page, lane[q].conv, lane[q].from)
      BY <2>1, LaneType DEF Pages, DrawerInv, LanesFit
    <3> QED
      BY <1>2, <1>4, <1>5, <3>1 DEF PageFits, Increasing, From
  <2> QED
    BY <1>2, <2>1 DEF DrawerInv, LanesFit
<1>8. ASSUME detail # Nil, ~stray PROVE ShownFits'
  <2>1. ShownFits /\ detail \in Convs /\ before \in Places
    BY <1>8 DEF DrawerInv, DrawerType
  <2> QED
    BY <1>2, <1>4, <1>5, <2>1 DEF ShownFits, Increasing, From
<1> QED
  BY <1>2, <1>6, <1>7, <1>8 DEF DrawerInv

\* One more request, by a drawer that shows c or, for a click on a card, none
LEMMA DrawerSend ==
    ASSUME DrawerInv, NEW q \in Lanes, NEW kind \in {"open", "refresh", "older"},
           NEW c \in Convs, NEW from \in Places, Send(q, kind, c, from), UNCHANGED msgs,
           kind = "older" => from # 0, kind = "refresh" => from = 0,
           detail' \in {Nil, detail}, shown' \in Seq(Times), UNCHANGED <<before, stray>>,
           detail' # Nil => c = detail /\ shown' = shown
    PROVE  DrawerInv'
<1>1. PICK x : x = Ask(kind, c, from)
  OBVIOUS
<1>2. /\ x \in Asks /\ x # NoAsk
      /\ x.kind = kind /\ x.conv = c /\ x.from = from /\ x.page = Nil /\ ~x.left
  BY <1>1, AskFields
<1>3. /\ lane' \in [Lanes -> Asks \union {NoAsk}] /\ lane'[q] = x
      /\ \A p \in Lanes \ {q} : lane'[p] = lane[p]
  BY <1>1, <1>2 DEF Send, DrawerInv, DrawerType
<1>4. DrawerType'
  BY <1>3 DEF DrawerInv, DrawerType
<1>5. Of(c)' = Of(c) /\ \A y : Of(y)' = Of(y)
  BY DEF Of
<1>6. LanesFit'
  <2> SUFFICES ASSUME NEW p \in Lanes, lane'[p] # NoAsk
               PROVE  /\ lane'[p].kind = "older" => lane'[p].from # 0
                      /\ lane'[p].kind = "refresh" => lane'[p].from = 0
                      /\ lane'[p].page # Nil
                            => PageFits(lane[p].page, lane[p].conv, lane[p].from)'
                      /\ detail' # Nil /\ ~lane'[p].left /\ lane'[p].kind # "open"
                            => lane'[p].conv = detail'
    BY DEF LanesFit
  <2>1. CASE p = q
    BY <1>2, <1>3, <2>1
  <2>2. CASE p # q
    BY <1>3, <1>5, <2>2 DEF DrawerInv, LanesFit, PageFits, AllOf, PageAfter
  <2> QED
    BY <2>1, <2>2
<1>7. ASSUME detail' # Nil, ~stray' PROVE ShownFits'
  <2>1. ShownFits /\ detail' = detail /\ shown' = shown /\ before' = before
    BY <1>7 DEF DrawerInv
  <2>2. \A p \in Lanes : lane'[p].page # Nil => lane'[p] = lane[p]
    BY <1>2, <1>3
  <2> QED
    BY <1>5, <2>1, <2>2 DEF ShownFits, AllOf, PageAfter
<1> QED
  BY <1>4, <1>6, <1>7 DEF DrawerInv

\* A request that ends without being shown, and a drawer that is closed
LEMMA DrawerForgets ==
    ASSUME DrawerInv, UNCHANGED <<msgs, shown, before, stray>>, detail' \in {Nil, detail},
           lane' \in [Lanes -> Asks \union {NoAsk}],
           \A p \in Lanes : lane'[p] \in {lane[p], NoAsk}
    PROVE  DrawerInv'
<1>1. \A y : Of(y)' = Of(y)
  BY DEF Of
<1>2. DrawerType'
  BY DEF DrawerInv, DrawerType
<1>3. LanesFit'
  BY <1>1 DEF DrawerInv, LanesFit, PageFits, AllOf, PageAfter
<1>4. ASSUME detail' # Nil, ~stray' PROVE ShownFits'
  BY <1>1, <1>4, IdleLane DEF DrawerInv, ShownFits, AllOf, PageAfter
<1> QED
  BY <1>2, <1>3, <1>4 DEF DrawerInv

LEMMA DrawerServed ==
    ASSUME DrawerInv, NEW q \in Lanes, Served(q)
    PROVE  DrawerInv'
<1>1. lane[q] # NoAsk /\ lane[q] \in Asks /\ lane[q].conv \in Convs /\ lane[q].from \in Places
  BY LaneType DEF Served
<1>2. PICK page : page = ListMessages(lane[q].conv, lane[q].from)
  OBVIOUS
<1>3. /\ page \in Pages /\ PageFits(page, lane[q].conv, lane[q].from)
      /\ \A b \in Places \ {0} :
            lane[q].from = 0 /\ PageAfter(lane[q].conv, b) => From(page.items, b)
  BY <1>1, <1>2, MessagesListed
<1>4. PICK x : x = [lane[q] EXCEPT !.page = page]
  OBVIOUS
<1>5. /\ x \in Asks /\ x.kind = lane[q].kind /\ x.conv = lane[q].conv
      /\ x.from = lane[q].from /\ x.page = page /\ x.left = lane[q].left
  BY <1>1, <1>3, <1>4 DEF Asks
<1>6. /\ lane' \in [Lanes -> Asks \union {NoAsk}] /\ lane'[q] = x
      /\ \A p \in Lanes \ {q} : lane'[p] = lane[p]
  BY <1>2, <1>4, <1>5 DEF Served, DrawerInv, DrawerType
<1>7. UNCHANGED <<msgs, detail, shown, before, stray>> /\ \A y : Of(y)' = Of(y)
  BY DEF Served, Of
<1>8. DrawerType'
  BY <1>6, <1>7 DEF DrawerInv, DrawerType
<1>9. \A pg, y, b : PageFits(pg, y, b) => PageFits(pg, y, b)'
  BY <1>7 DEF PageFits, AllOf, PageAfter
<1>10. LanesFit'
  <2>1. ASSUME NEW p \in Lanes \ {q}, lane[p] # NoAsk
        PROVE  /\ lane[p].kind = "older" => lane[p].from # 0
               /\ lane[p].kind = "refresh" => lane[p].from = 0
               /\ lane[p].page # Nil
                     => PageFits(lane[p].page, lane[p].conv, lane[p].from)
               /\ detail # Nil /\ ~lane[p].left /\ lane[p].kind # "open" => lane[p].conv = detail
    BY <2>1 DEF DrawerInv, LanesFit
  <2>2. /\ lane[q].kind = "older" => lane[q].from # 0
        /\ lane[q].kind = "refresh" => lane[q].from = 0
        /\ detail # Nil /\ ~lane[q].left /\ lane[q].kind # "open" => lane[q].conv = detail
    BY <1>1 DEF DrawerInv, LanesFit
  <2> QED
    BY <1>3, <1>5, <1>6, <1>7, <1>9, <2>1, <2>2 DEF LanesFit
<1>11. ASSUME detail # Nil, ~stray PROVE ShownFits'
  <2>1. ShownFits /\ before \in Places
    BY <1>11 DEF DrawerInv, DrawerType
  <2>2. ASSUME before # 0, x.kind = "refresh", ~x.left PROVE From(page.items, before)
    <3>1. lane[q].from = 0 /\ lane[q].conv = detail
      BY <1>1, <1>5, <1>11, <2>2 DEF DrawerInv, LanesFit
    <3>2. PageAfter(detail, before)
      BY <2>1, <2>2 DEF ShownFits
    <3> QED
      BY <1>3, <2>1, <2>2, <3>1, <3>2
  <2>3. ASSUME before # 0
        PROVE  \A p \in Lanes : lane'[p].kind = "refresh" /\ ~lane'[p].left /\ lane'[p].page # Nil
                  => From(lane'[p].page.items, before)
    BY <1>5, <1>6, <2>1, <2>2, <2>3 DEF ShownFits
  <2>4. Increasing(shown)' /\ AllOf(shown, detail)'
        /\ (before # 0 => From(shown, before)' /\ PageAfter(detail, before)')
    BY <1>7, <2>1 DEF ShownFits, AllOf, Increasing, From, PageAfter
  <2> QED
    BY <1>7, <2>3, <2>4 DEF ShownFits, From
<1> QED
  BY <1>7, <1>8, <1>10, <1>11 DEF DrawerInv

LEMMA DrawerOpened ==
    ASSUME DrawerInv, NEW q \in Lanes, Opened(q)
    PROVE  DrawerInv'
<1>1. lane[q] # NoAsk /\ lane[q].page # Nil
  BY IdleLane DEF Opened, Delivered
<1>2. /\ lane[q].conv \in Convs /\ lane[q].page \in Pages
      /\ PageFits(lane[q].page, lane[q].conv, lane[q].from)
  BY <1>1, LaneType DEF DrawerInv, LanesFit
<1>3. /\ detail' = lane[q].conv /\ shown' = lane[q].page.items /\ before' = lane[q].page.next
      /\ stray' = FALSE /\ msgs' = msgs /\ \A y : Of(y)' = Of(y)
  BY DEF Opened, Of
<1>4. lane' = [p \in Lanes |->
          IF p = q \/ lane[p] = NoAsk THEN NoAsk ELSE [lane[p] EXCEPT !.left = TRUE]]
  BY DEF Opened
<1>5. ASSUME NEW p \in Lanes, p # q, lane[p] # NoAsk
      PROVE  /\ lane'[p] \in Asks /\ lane'[p].kind = lane[p].kind /\ lane'[p].conv = lane[p].conv
             /\ lane'[p].from = lane[p].from /\ lane'[p].page = lane[p].page /\ lane'[p].left
  <2>1. PICK x : x = [lane[p] EXCEPT !.left = TRUE]
    OBVIOUS
  <2>2. lane'[p] = x
    BY <1>4, <1>5, <2>1
  <2>3. lane[p] \in Asks
    BY <1>5, LaneType
  <2>4. x \in Asks /\ x.kind = lane[p].kind /\ x.conv = lane[p].conv
        /\ x.from = lane[p].from /\ x.page = lane[p].page /\ x.left
    BY <2>1, <2>3 DEF Asks
  <2> QED
    BY <2>2, <2>4
<1>6. \A p \in Lanes : p = q \/ lane[p] = NoAsk => lane'[p] = NoAsk
  BY <1>4
<1>7. DrawerType'
  <2>1. lane' \in [Lanes -> Asks \union {NoAsk}]
    <3>1. \A p \in Lanes : lane'[p] \in Asks \union {NoAsk}
      BY <1>5, <1>6
    <3>2. DOMAIN lane' = Lanes /\ lane' = [p \in Lanes |-> lane'[p]]
      BY <1>4
    <3> QED
      BY <3>1, <3>2
  <2>2. lane[q].page.items \in Seq(Times) /\ lane[q].page.next \in Places
    BY <1>2 DEF Pages
  <2> QED
    BY <1>2, <1>3, <2>1, <2>2 DEF DrawerInv, DrawerType
<1>8. LanesFit'
  <2>1. \A pg, y, b : PageFits(pg, y, b) => PageFits(pg, y, b)'
    BY <1>3 DEF PageFits, AllOf, PageAfter
  <2>2. ASSUME NEW p \in Lanes, lane'[p] # NoAsk
        PROVE  /\ lane'[p].kind = "older" => lane'[p].from # 0
               /\ lane'[p].kind = "refresh" => lane'[p].from = 0
               /\ lane'[p].page # Nil => PageFits(lane[p].page, lane[p].conv, lane[p].from)'
               /\ lane'[p].left /\ lane'[p].page = lane[p].page
    BY <1>5, <1>6, <2>1, <2>2 DEF DrawerInv, LanesFit
  <2> QED
    BY <2>2 DEF LanesFit
<1>9. ShownFits'
  <2>1. \A p \in Lanes : lane'[p].kind = "refresh" => lane'[p].left
    BY <1>5, <1>6, IdleLane
  <2> QED
    BY <1>2, <1>3, <2>1 DEF ShownFits, PageFits, Increasing, AllOf, From, PageAfter
<1> QED
  BY <1>7, <1>8, <1>9 DEF DrawerInv

LEMMA DoneLanes ==
    ASSUME DrawerInv, NEW q \in Lanes, Done(q)
    PROVE  /\ lane' \in [Lanes -> Asks \union {NoAsk}] /\ lane'[q] = NoAsk
           /\ \A p \in Lanes \ {q} : lane'[p] = lane[p]
           /\ \A p \in Lanes : lane'[p] \in {lane[p], NoAsk}
  BY DEF Done, DrawerInv, DrawerType

LEMMA DrawerRefreshed ==
    ASSUME DrawerInv, NEW q \in Lanes, Refreshed(q)
    PROVE  DrawerInv'
<1>1. lane[q] # NoAsk /\ lane[q].page # Nil /\ lane[q].kind = "refresh" /\ Done(q)
  BY IdleLane DEF Refreshed, Delivered
<1>2. UNCHANGED <<msgs, detail, before>> /\ \A y : Of(y)' = Of(y)
  BY DEF Refreshed, Of
<1>3. CASE ~StillShown(lane[q].conv)
  <2>1. UNCHANGED <<shown, stray>>
    BY <1>3 DEF Refreshed
  <2> QED
    BY <1>1, <1>2, <2>1, DoneLanes, DrawerForgets
<1>4. CASE StillShown(lane[q].conv)
  <2>1. /\ shown' = Merged(lane[q].page.items)
        /\ stray' = (stray \/ (lane[q].left /\ lane[q].conv = detail)) /\ lane[q].conv = detail
    BY <1>4 DEF Refreshed, StillShown
  <2>2. /\ lane[q].conv \in Convs /\ lane[q].page \in Pages
        /\ PageFits(lane[q].page, lane[q].conv, lane[q].from)
    BY <1>1, LaneType DEF DrawerInv, LanesFit
  <2>3. PICK items : items = lane[q].page.items /\ items \in Seq(Times)
    BY <2>2 DEF Pages
  <2>4. /\ shown' \in Seq(Times)
        /\ \A n \in DOMAIN shown' : \/ \E k \in DOMAIN shown : shown'[n] = shown[k]
                                   \/ \E k \in DOMAIN items : shown'[n] = items[k]
        /\ Increasing(shown) /\ Increasing(items) => Increasing(shown')
    <3>1. shown \in Seq(Times) /\ shown' = Merged(items)
      BY <2>1, <2>3 DEF DrawerInv, DrawerType
    <3>2. PICK m : m = Merged(items)
      OBVIOUS
    <3>3. /\ m \in Seq(Times)
          /\ \A n \in DOMAIN m : \/ \E k \in DOMAIN shown : m[n] = shown[k]
                               \/ \E k \in DOMAIN items : m[n] = items[k]
          /\ Increasing(shown) /\ Increasing(items) => Increasing(m)
      BY <2>3, <3>1, <3>2, MergedIs
    <3> QED
      BY <3>1, <3>2, <3>3, Zenon
  <2>5. DrawerType'
    BY <1>1, <1>2, <2>1, <2>4, DoneLanes DEF DrawerInv, DrawerType
  <2>6. LanesFit'
    BY <1>1, <1>2, DoneLanes DEF DrawerInv, LanesFit, PageFits, AllOf, PageAfter
  <2>7. ASSUME detail # Nil, ~stray' PROVE ShownFits'
    <3>1. ~stray /\ ~lane[q].left /\ ShownFits
      BY <2>1, <2>7 DEF DrawerInv, DrawerType
    <3>2. Increasing(items) /\ AllOf(items, detail)
      BY <2>1, <2>2, <2>3 DEF PageFits
    <3>3. Increasing(shown)'
      BY <2>4, <3>1, <3>2 DEF ShownFits, Increasing
    <3>4. AllOf(shown, detail)'
      BY <1>2, <2>4, <3>1, <3>2 DEF ShownFits, AllOf
    <3>5. ASSUME before # 0 PROVE From(shown, before)' /\ PageAfter(detail, before)'
      <4>1. From(shown, before) /\ From(items, before) /\ PageAfter(detail, before)
        BY <1>1, <2>3, <3>1, <3>5 DEF ShownFits
      <4> QED
        BY <1>2, <2>4, <4>1 DEF From, PageAfter
    <3>6. ASSUME before # 0, NEW p \in Lanes,
                 lane'[p].kind = "refresh", ~lane'[p].left, lane'[p].page # Nil
          PROVE  From(lane'[p].page.items, before)
      BY <1>1, <3>1, <3>6, DoneLanes, IdleLane DEF ShownFits
    <3> QED
      BY <1>2, <3>3, <3>4, <3>5, <3>6 DEF ShownFits, From
  <2> QED
    BY <1>2, <2>5, <2>6, <2>7 DEF DrawerInv
<1> QED
  BY <1>3, <1>4

LEMMA DrawerOlder ==
    ASSUME DrawerInv, NEW q \in Lanes, OlderLoaded(q)
    PROVE  DrawerInv'
<1>1. lane[q] # NoAsk /\ lane[q].page # Nil /\ lane[q].kind = "older" /\ Done(q)
  BY IdleLane DEF OlderLoaded, Delivered
<1>2. UNCHANGED <<msgs, detail>> /\ \A y : Of(y)' = Of(y)
  BY DEF OlderLoaded, Of
<1>3. /\ lane[q].conv \in Convs /\ lane[q].page \in Pages
      /\ PageFits(lane[q].page, lane[q].conv, lane[q].from) /\ lane[q].from # 0
  BY <1>1, LaneType DEF DrawerInv, LanesFit
<1>4. PICK items, next : /\ items = lane[q].page.items /\ items \in Seq(Times)
                         /\ next = lane[q].page.next /\ next \in Places
  BY <1>3 DEF Pages
<1>5. /\ shown' = items \o shown /\ before' = next
      /\ stray' = (stray \/ lane[q].left \/ lane[q].from # before)
  BY <1>4 DEF OlderLoaded
<1>6. shown \in Seq(Times) /\ shown' \in Seq(Times)
  BY <1>4, <1>5, ConcatProperties DEF DrawerInv, DrawerType
<1>7. DrawerType'
  BY <1>1, <1>2, <1>4, <1>5, <1>6, DoneLanes DEF DrawerInv, DrawerType
<1>8. LanesFit'
  BY <1>1, <1>2, DoneLanes DEF DrawerInv, LanesFit, PageFits, AllOf, PageAfter
<1>9. ASSUME detail # Nil, ~stray' PROVE ShownFits'
  <2>1. ~stray /\ ~lane[q].left /\ lane[q].from = before /\ before # 0
    BY <1>3, <1>5, <1>9
  <2>2. ShownFits /\ lane[q].conv = detail /\ before \in Nat /\ next \in Nat
    <3>1. ShownFits /\ lane[q].conv = detail
      BY <1>1, <1>4, <1>9, <2>1 DEF DrawerInv, LanesFit
    <3>2. before \in Places /\ next \in Places
      BY <1>1, <1>4 DEF DrawerInv, DrawerType
    <3> QED
      BY <3>1, <3>2 DEF Places
  <2>3. /\ Increasing(items) /\ AllOf(items, detail)
        /\ \A k \in DOMAIN items : items[k] < before
        /\ next # 0 => next < before /\ From(items, next) /\ PageAfter(detail, next)
    BY <1>3, <1>4, <2>1, <2>2 DEF PageFits, Behind
  <2>4. Increasing(shown) /\ AllOf(shown, detail) /\ From(shown, before)
    BY <2>1, <2>2 DEF ShownFits
  <2>5. PICK M, N : M = Len(items) /\ N = Len(shown) /\ M \in Nat /\ N \in Nat
                    /\ DOMAIN items = 1 .. M /\ DOMAIN shown = 1 .. N
    BY <1>4, <1>6, LenProperties
  <2>6. /\ DOMAIN shown' = 1 .. M + N
        /\ \A k \in 1 .. M + N : shown'[k] = IF k <= M THEN items[k] ELSE shown[k - M]
    <3>1. Len(shown') = M + N
          /\ \A k \in 1 .. M + N : shown'[k] = IF k <= M THEN items[k] ELSE shown[k - M]
      BY <1>4, <1>5, <1>6, <2>5, ConcatProperties
    <3> QED
      BY <1>6, <3>1, LenProperties
  <2>7. ASSUME NEW k \in 1 .. M + N
        PROVE  \/ k \in DOMAIN items /\ k <= M /\ shown'[k] = items[k]
               \/ k - M \in DOMAIN shown /\ k > M /\ shown'[k] = shown[k - M]
    BY <2>5, <2>6
  <2>8. \A k \in DOMAIN items : items[k] \in Nat
    BY <1>4, <2>5, ElementOfSeq
  <2>9. \A k \in DOMAIN shown : shown[k] \in Nat
    BY <1>6, <2>5, ElementOfSeq
  <2>10. ASSUME NEW k \in 1 .. M + N, NEW l \in 1 .. M + N, k < l
         PROVE  shown'[k] < shown'[l]
    <3>1. CASE l \in DOMAIN items /\ l <= M /\ shown'[l] = items[l]
      <4>1. k \in DOMAIN items /\ shown'[k] = items[k]
        BY <2>5, <2>7, <2>10, <3>1
      <4> QED
        BY <2>3, <2>10, <3>1, <4>1 DEF Increasing
    <3>2. CASE l - M \in DOMAIN shown /\ l > M /\ shown'[l] = shown[l - M]
      <4>1. CASE k \in DOMAIN items /\ k <= M /\ shown'[k] = items[k]
        <5>1. PICK x, y \in Nat : x = items[k] /\ y = shown[l - M]
          BY <2>8, <2>9, <3>2, <4>1
        <5>2. x < before /\ before <= y
          BY <2>3, <2>4, <3>2, <4>1, <5>1 DEF From
        <5>3. x < y
          BY <2>2, <5>2
        <5> QED
          BY <3>2, <4>1, <5>1, <5>3
      <4>2. CASE k - M \in DOMAIN shown /\ k > M /\ shown'[k] = shown[k - M]
        <5>1. k - M < l - M
          BY <2>5, <2>10
        <5> QED
          BY <2>4, <3>2, <4>2, <5>1 DEF Increasing
      <4> QED
        BY <2>7, <4>1, <4>2
    <3> QED
      BY <2>7, <3>1, <3>2
  <2>11. Increasing(shown)'
    BY <2>6, <2>10 DEF Increasing
  <2>12. AllOf(shown, detail)'
    BY <1>2, <2>3, <2>4, <2>6, <2>7 DEF AllOf
  <2>13. ASSUME next # 0 PROVE From(shown, next)' /\ PageAfter(detail, next)'
    <3>1. ASSUME NEW k \in 1 .. M + N PROVE next <= shown'[k]
      <4>1. CASE k \in DOMAIN items /\ k <= M /\ shown'[k] = items[k]
        BY <2>3, <2>13, <4>1 DEF From
      <4>2. CASE k - M \in DOMAIN shown /\ k > M /\ shown'[k] = shown[k - M]
        <5>1. PICK y \in Nat : y = shown[k - M] /\ before <= y
          BY <2>4, <2>9, <4>2 DEF From
        <5>2. next < before
          BY <2>3, <2>13
        <5> QED
          BY <2>2, <4>2, <5>1, <5>2
      <4> QED
        BY <2>7, <4>1, <4>2
    <3> QED
      BY <1>2, <2>3, <2>6, <2>13, <3>1 DEF From, PageAfter
  <2>14. ASSUME NEW p \in Lanes, next # 0,
                lane'[p].kind = "refresh", ~lane'[p].left, lane'[p].page # Nil
         PROVE  From(lane'[p].page.items, next)
    <3>1. lane'[p] = lane[p] /\ lane[p] # NoAsk
      BY <1>1, <2>14, DoneLanes, IdleLane
    <3>2. From(lane[p].page.items, before) /\ lane[p].page \in Pages
      BY <2>1, <2>2, <2>14, <3>1, LaneType DEF ShownFits
    <3>3. PICK t : t = lane[p].page.items /\ t \in Seq(Times)
      BY <3>2 DEF Pages
    <3>4. \A k \in DOMAIN t : t[k] \in Nat /\ before <= t[k]
      <4>1. \A k \in DOMAIN t : t[k] \in Times
        BY <3>3, ElementOfSeq, LenProperties
      <4> QED
        BY <3>2, <3>3, <4>1 DEF From
    <3>5. \A k \in DOMAIN t : next <= t[k]
      BY <2>2, <2>3, <2>14, <3>4
    <3> QED
      BY <3>1, <3>3, <3>5 DEF From
  <2> QED
    BY <1>2, <1>5, <2>11, <2>12, <2>13, <2>14 DEF ShownFits, From
<1> QED
  BY <1>2, <1>7, <1>8, <1>9 DEF DrawerInv

LEMMA DrawerNext == DrawerInv /\ [Next]_vars => DrawerInv'
<1> SUFFICES ASSUME DrawerInv, [Next]_vars PROVE DrawerInv'
  OBVIOUS
<1>1. ASSUME NEW i \in Times, NEW c \in Convs, Arrive(i, c) PROVE DrawerInv'
  BY <1>1, DrawerArrive
<1>2. CASE Regroup \/ ListStep \/ UNCHANGED vars
  <2>1. UNCHANGED <<msgs, drawer>>
    BY <1>2 DEF Regroup, ListStep, Pick, Type, Debounced, More, ListAnswered, ListFailed, vars
  <2> QED
    BY <2>1, DrawerForgets DEF drawer, DrawerInv, DrawerType
<1>3. CASE Close
  BY <1>3, DrawerForgets DEF Close, DrawerInv, DrawerType
<1>4. ASSUME NEW q \in Lanes, NEW c \in Convs, OpenDetail(q, c) PROVE DrawerInv'
  <2>1. /\ Send(q, "open", c, 0) /\ detail' = Nil /\ shown' = <<>>
        /\ UNCHANGED <<msgs, before, stray>>
    BY <1>4 DEF OpenDetail
  <2>2. <<>> \in Seq(Times) /\ 0 \in Places
    BY DEF Places
  <2> QED
    BY <2>1, <2>2, DrawerSend
<1>5. ASSUME NEW q \in Lanes, RefreshDetail(q) PROVE DrawerInv'
  <2>1. /\ Send(q, "refresh", detail, 0) /\ UNCHANGED <<msgs, detail, shown, before, stray>>
        /\ detail \in Convs /\ 0 \in Places /\ shown \in Seq(Times)
    BY <1>5 DEF RefreshDetail, DrawerInv, DrawerType, Places
  <2> QED
    BY <2>1, DrawerSend
<1>6. ASSUME NEW q \in Lanes, LoadOlder(q) PROVE DrawerInv'
  <2>1. /\ Send(q, "older", detail, before) /\ UNCHANGED <<msgs, detail, shown, before, stray>>
        /\ detail \in Convs /\ before \in Places /\ before # 0 /\ shown \in Seq(Times)
    BY <1>6 DEF LoadOlder, DrawerInv, DrawerType
  <2> QED
    BY <2>1, DrawerSend
<1>7. ASSUME NEW q \in Lanes, Served(q) \/ Opened(q) \/ Refreshed(q) \/ OlderLoaded(q)
      PROVE  DrawerInv'
  BY <1>7, DrawerServed, DrawerOpened, DrawerRefreshed, DrawerOlder
<1>8. ASSUME NEW q \in Lanes, Failed(q) PROVE DrawerInv'
  BY <1>8, DoneLanes, DrawerForgets DEF Failed
<1> QED
  BY <1>1, <1>2, <1>3, <1>4, <1>5, <1>6, <1>7, <1>8 DEF Next, DrawerStep

\* What is shown in the drawer and what is on its way to it fit each other.
THEOREM DrawerFits == Spec => []DrawerInv
<1> QED
  BY DrawerInit, DrawerNext, PTL DEF Spec

\* OneConversation: until an answer is taken for a drawer it was not asked for,
\* detailMessages is of one conversation, in order and without repetition.
THEOREM OneShown == Spec => []OneConversation
<1>1. DrawerInv => OneConversation
  BY DEF DrawerInv, ShownFits, Increasing, AllOf, Of, OneConversation
<1> QED
  BY <1>1, DrawerFits, PTL
=============================================================================
