-------------------------- MODULE CollectionsProofs --------------------------
(***************************************************************************)
(* Theorems about the order of a collection and about the rows under a   *)
(* project, for every set of rows, lists and requests.                   *)
(***************************************************************************)
EXTENDS MCCollections, FiniteSetTheorems, SequenceTheorems, WellFoundedInduction, TLAPS

-----------------------------------------------------------------------------
(* Lists, places and what others see                                     *)

\* Nothing is saved at first.
LEMMA NothingSaved == DOMAIN <<>> = {} /\ <<>> \in [{} -> Orders]
OBVIOUS

\* There are finitely many rows.
LEMMA ItemCount == Cardinality(Item) \in Nat
BY OrderAssumption, FS_CardinalityType

\* A list that was sent is a sequence of rows, not longer than there are rows.
LEMMA ListShape ==
    ASSUME NEW list \in Lists
    PROVE  /\ Len(list) \in Nat /\ Len(list) >= 1 /\ DOMAIN list = 1..Len(list)
           /\ list \in [1..Len(list) -> Item] /\ Named(list) \subseteq Item
           /\ list # <<>>
           /\ \A i \in 1..Len(list) : i - 1 \in Orders
<1>1. PICK n \in 1..Cardinality(Item) : list \in [1..n -> Item]
  BY DEF Lists
<1>2. n \in Nat /\ n >= 1 /\ n <= OrderBound + 1
  BY ItemCount, OrderAssumption
<1>3. list \in Seq(Item)
  BY <1>1, <1>2, SeqDef
<1>4. Len(list) \in Nat /\ DOMAIN list = 1..Len(list) /\ list \in [1..Len(list) -> Item]
  BY <1>3, LenProperties
<1>5. 1..Len(list) = 1..n
  BY <1>1, <1>4
<1>6. Len(list) >= 1 /\ \A i \in 1..Len(list) : i - 1 \in Orders
  <2>1. 1 \in 1..Len(list)
    BY <1>2, <1>5
  <2>2. ASSUME NEW i \in 1..Len(list) PROVE i - 1 \in Orders
    <3>1. i \in 1..n
      BY <1>5
    <3>2. i \in Nat /\ i >= 1 /\ i <= OrderBound + 1 /\ OrderBound \in Nat
      BY <1>2, <3>1, OrderAssumption
    <3> QED
      BY <3>2 DEF Orders
  <2> QED
    BY <1>4, <2>1, <2>2
<1>7. list # <<>>
  <2>1. 1 \in DOMAIN list
    BY <1>4, <1>6
  <2> QED
    BY <2>1, NothingSaved
<1> QED
  BY <1>4, <1>6, <1>7 DEF Named

\* A finite set of numbers has a greatest one.  (nextGalleryOrder)
LEMMA MaxMember ==
    ASSUME NEW S \in SUBSET Nat, S # {}, IsFiniteSet(S)
    PROVE  Max(S) \in S /\ \A x \in S : x <= Max(S)
<1> DEFINE above(x) == {y \in S : y > x}
           T == {above(x) : x \in S}
<1>1. IsWellFoundedOn(StrictSubsetOrdering(S), FiniteSubsetsOf(S))
  BY FS_StrictSubsetOrderingWellFounded
<1>2. T \subseteq FiniteSubsetsOf(S) /\ T # {}
  <2>1. \A x \in S : above(x) \subseteq S
    OBVIOUS
  <2>2. \A U \in SUBSET S : IsFiniteSet(U)
    BY FS_Subset
  <2> HIDE DEF above
  <2> QED
    BY <2>1, <2>2 DEF FiniteSubsetsOf
<1> HIDE DEF T
<1>3. PICK U \in T : \A W \in T : ~ (<<W, U>> \in StrictSubsetOrdering(S))
  BY <1>1, <1>2, WFMin
<1>4. PICK x \in S : U = above(x)
  BY DEF T
<1>5. \A y \in S : x >= y
  <2> SUFFICES ASSUME NEW y \in S, ~(x >= y) PROVE FALSE
    OBVIOUS
  <2>1. x \in Nat /\ y \in Nat /\ y > x
    OBVIOUS
  <2>2. above(y) \in T
    BY DEF T
  <2>3. U = above(x)
    BY <1>4
  <2>4. y \in U /\ y \notin above(y)
    BY <2>1, <2>3
  <2>5. ASSUME NEW z \in S, z > y PROVE z > x
    BY <2>1, <2>5
  <2>6. above(y) \subseteq U
    BY <2>3, <2>5
  <2> QED
    BY <2>2, <2>3, <2>4, <2>6, <1>3 DEF StrictSubsetOrdering
<1> QED
  BY <1>5 DEF Max

\* The place of a row that the list names is the last one.
LEMMA LastPlace ==
    ASSUME NEW list \in Lists, NEW r \in Named(list)
    PROVE  /\ Place(list, r) \in DOMAIN list /\ list[Place(list, r)] = r
           /\ \A j \in DOMAIN list : list[j] = r => j <= Place(list, r)
<1> DEFINE S == {i \in DOMAIN list : list[i] = r}
<1>1. DOMAIN list = 1..Len(list) /\ Len(list) \in Nat
  BY ListShape
<1>2. S \in SUBSET Nat /\ S # {}
  BY <1>1 DEF Named
<1>3. IsFiniteSet(S)
  <2>1. Len(list) \in Nat /\ \A i \in S : i <= Len(list)
    BY <1>1
  <2> QED
    BY <1>2, <2>1, FS_BoundedSetOfNaturals
<1> HIDE DEF S
<1>4. Max(S) \in S /\ \A j \in S : j <= Max(S)
  BY <1>2, <1>3, MaxMember
<1>5. \E i \in DOMAIN list : list[i] = r /\ \A j \in DOMAIN list : list[j] = r => j <= i
  BY <1>4 DEF S
<1> QED
  BY <1>5 DEF Place

\* The orders that others see.
Visible == [r \in Item |-> Committed(r)]

\* The rows as others see them.
Shelf == [r \in Item |-> [life |-> item[r].life, order |-> Visible[r]]]

\* The collection as one that is arranged in one go.
Atomic == INSTANCE AtomicOrder WITH shelf <- Shelf

\* Request q has updated the row r and not committed.
Holding(requests, q, r) ==
    requests[q] # Free /\ requests[q].op = "write" /\ r \in DOMAIN requests[q].saved

\* Others see what a transaction has saved, and else what is in the table.
VisibleIs ==
    \A r \in Item :
        \/ \E q \in Sorter : Holding(work, q, r) /\ Visible[r] = work[q].saved[r]
        \/ (\A q \in Sorter : ~Holding(work, q, r)) /\ Visible[r] = item[r].order

\* Committed() finds the transaction that holds the row.
LEMMA WhatOthersSee == VisibleIs
<1> SUFFICES ASSUME NEW r \in Item
             PROVE  \/ \E q \in Sorter : Holding(work, q, r) /\ Visible[r] = work[q].saved[r]
                    \/ (\A q \in Sorter : ~Holding(work, q, r)) /\ Visible[r] = item[r].order
  BY DEF VisibleIs
<1>1. Visible[r] = Committed(r)
  BY DEF Visible
<1>2. Unlocked(r) <=> \A q \in Sorter : ~Holding(work, q, r)
  BY OrderAssumption DEF Unlocked, LockedByOther, Busy, Holding
<1>3. CASE Unlocked(r)
  BY <1>1, <1>2, <1>3 DEF Committed
<1>4. CASE ~Unlocked(r)
  <2> DEFINE p == CHOOSE q \in Sorter : Busy(q, "write") /\ r \in DOMAIN work[q].saved
  <2>1. \E q \in Sorter : Busy(q, "write") /\ r \in DOMAIN work[q].saved
    BY <1>2, <1>4 DEF Busy, Holding
  <2>2. p \in Sorter /\ Busy(p, "write") /\ r \in DOMAIN work[p].saved
    BY <2>1
  <2>3. Committed(r) = work[p].saved[r]
    BY <1>4 DEF Committed
  <2> QED
    BY <1>1, <2>2, <2>3 DEF Busy, Holding
<1> QED
  BY <1>3, <1>4

\* At most one transaction has updated a row.
LEMMA OneHolder ==
    ASSUME OrderTypeOK, NEW q \in Sorter, NEW p \in Sorter, NEW r,
           Holding(work, q, r), Holding(work, p, r)
    PROVE  q = p
BY DEF OrderTypeOK, Holding

\* What others see are order numbers.
LEMMA VisibleTyped == OrderTypeOK => Visible \in [Item -> Orders]
<1> SUFFICES ASSUME OrderTypeOK PROVE \A r \in Item : Visible[r] \in Orders
  BY DEF Visible
<1>1. ASSUME NEW r \in Item, NEW q \in Sorter, Holding(work, q, r)
      PROVE  work[q].saved[r] \in Orders
  BY <1>1 DEF OrderTypeOK, Work, Holding
<1>2. \A r \in Item : item[r].order \in Orders
  BY DEF OrderTypeOK, Entry
<1> QED
  BY <1>1, <1>2, WhatOthersSee DEF VisibleIs

-----------------------------------------------------------------------------
(* The inductive invariant of the order                                  *)

\* The rows that a reorder has updated.
Updated(c) == {c.list[i] : i \in 1 .. c.next - 1}

\* What the steps of a request have left in it.
Shaped(c) ==
    /\ c.op = "write" => c.list \in Lists /\ c.next \in 1 .. Len(c.list) + 1
                         /\ DOMAIN c.saved = Updated(c)
    /\ c.op = "count" => c.list \in Lists /\ ~Repeats(c.list) /\ c.next = 1
    /\ c.op # "write" => DOMAIN c.saved = {}

\* The rows a reorder has updated are still there, each with its last place.
InPlace(c, rows) ==
    c.op = "write" => \A i \in 1 .. c.next - 1 :
        /\ rows[c.list[i]].life \in {"live", "trashed"}
        /\ (\A j \in 1 .. c.next - 1 : c.list[j] = c.list[i] => j <= i) =>
               rows[c.list[i]].order = i - 1

\* The rows that a checked list does not name, and those it names, are among as many
\* as it names and those that came to life since.
Explained(list, members, since) ==
    \E counted \in SUBSET Item :
        /\ Cardinality(counted) = Cardinality(Named(list))
        /\ members \cup Named(list) \subseteq counted \cup since

\* What a checked list leaves out; what one leaves out whose rows were counted.
NothingMissed(c, members, kind) ==
    /\ c.op = "write" /\ ~Repeats(c.list) =>
           /\ Explained(c.list, members, c.missed)
           /\ kind # "listed" => members \subseteq Named(c.list) \cup c.missed
    /\ c.op = "count" =>
           /\ kind = "listed"
           /\ \E counted \in SUBSET Item :
                 Cardinality(counted) = Len(c.list) /\ members \subseteq counted \cup c.missed

\* The number of a new row is above all others while it is not outdated.
Above(c, members, orders) ==
    c.op = "insert" /\ ~c.outdated => \A s \in members : orders[s] < c.next

\* What the invariant says of one request.
RequestInv(c, rows, members, orders, kind) ==
    /\ Shaped(c) /\ InPlace(c, rows)
    /\ NothingMissed(c, members, kind) /\ Above(c, members, orders)

\* What the list that was last committed leaves out.
ListedExplained ==
    listed # <<>> /\ ~Repeats(listed) => Explained(listed, Members, newcomers)

\* The inductive invariant.
OrderInv ==
    /\ OrderTypeOK
    /\ \A q \in Sorter : work[q] # Free => RequestInv(work[q], item, Members, Visible, collection)
    /\ \A r \in Named(listed) : item[r].life # "none"
    /\ \A r \in Named(listed) \ edited : Visible[r] = Place(listed, r) - 1
    /\ ListedExplained
    /\ NobodyLeftOut

\* A list that is explained leaves out no more rows than came to life since.
LEMMA LeftOutBound ==
    ASSUME NEW list, Named(list) \subseteq Item, NEW members \in SUBSET Item,
           NEW since \in SUBSET Item, Explained(list, members, since)
    PROVE  Cardinality(members \ Named(list)) <= Cardinality(since)
<1> DEFINE named == Named(list)
<1>1. PICK counted \in SUBSET Item :
         /\ Cardinality(counted) = Cardinality(named)
         /\ members \cup named \subseteq counted \cup since
  BY DEF Explained
<1> HIDE DEF named
<1>2. named \subseteq Item
  BY DEF named
<1>3. \A S \in SUBSET Item : IsFiniteSet(S) /\ Cardinality(S) \in Nat
  BY OrderAssumption, FS_Subset, FS_CardinalityType
<1> DEFINE strangers == counted \ named   \* counted and not named
           returned  == named \ counted   \* named and not counted
           late      == (since \ counted) \ named
<1>4. Cardinality(strangers) = Cardinality(returned)
  <2>1. Cardinality(strangers) = Cardinality(counted) - Cardinality(counted \cap named)
    BY <1>3, FS_Difference
  <2>2. Cardinality(returned) = Cardinality(named) - Cardinality(named \cap counted)
    BY <1>2, <1>3, FS_Difference
  <2>3. counted \cap named = named \cap counted
    OBVIOUS
  <2> HIDE DEF strangers, returned
  <2> QED
    BY <1>1, <2>1, <2>2, <2>3
<1>5. Cardinality(members \ named) <= Cardinality(strangers \cup late)
  <2>1. members \ named \subseteq strangers \cup late /\ strangers \cup late \in SUBSET Item
    BY <1>1
  <2> HIDE DEF strangers, late
  <2> QED
    BY <1>3, <2>1, FS_Subset
<1>6. Cardinality(strangers \cup late) <= Cardinality(strangers) + Cardinality(late)
  <2>1. strangers \in SUBSET Item /\ late \in SUBSET Item /\ strangers \cap late \in SUBSET Item
    OBVIOUS
  <2> HIDE DEF strangers, late
  <2>2. Cardinality(strangers \cup late)
          = Cardinality(strangers) + Cardinality(late) - Cardinality(strangers \cap late)
    BY <1>3, <2>1, FS_Union
  <2> QED
    BY <1>3, <2>1, <2>2
<1>7. Cardinality(returned \cup late) = Cardinality(returned) + Cardinality(late)
  <2>1. returned \in SUBSET Item /\ late \in SUBSET Item /\ returned \cap late = {}
    BY <1>2
  <2> HIDE DEF returned, late
  <2>2. Cardinality(returned \cup late)
          = Cardinality(returned) + Cardinality(late) - Cardinality(returned \cap late)
    BY <1>3, <2>1, FS_Union
  <2> QED
    BY <1>3, <2>1, <2>2, FS_EmptySet
<1>8. Cardinality(returned \cup late) <= Cardinality(since)
  <2>1. returned \cup late \subseteq since
    BY <1>1
  <2> HIDE DEF returned, late
  <2> QED
    BY <1>3, <2>1, FS_Subset
<1>9. /\ Cardinality(members \ named) \in Nat /\ Cardinality(strangers \cup late) \in Nat
      /\ Cardinality(strangers) \in Nat /\ Cardinality(late) \in Nat
      /\ Cardinality(since) \in Nat
  BY <1>1, <1>2, <1>3
<1> HIDE DEF strangers, returned, late
<1>10. Cardinality(members \ named) <= Cardinality(since)
  BY <1>4, <1>5, <1>6, <1>7, <1>8, <1>9
<1> QED
  BY <1>10 DEF named

\* What the invariant says of the list that was last committed.
LEMMA ListedFacts ==
    ASSUME OrderInv
    PROVE  /\ Named(listed) \subseteq Item
           /\ listed # <<>> => listed \in Lists
<1>1. Named(<<>>) = {}
  BY NothingSaved DEF Named
<1>2. listed \in Lists \/ listed = <<>>
  BY DEF OrderInv, OrderTypeOK
<1> QED
  BY <1>1, <1>2, ListShape

\* A row that no transaction takes or leaves is seen as before.
LEMMA SeenAsBefore ==
    ASSUME OrderTypeOK, NEW r \in Item, item'[r].order = item[r].order,
           \A p \in Sorter : Holding(work', p, r) <=> Holding(work, p, r),
           \A p \in Sorter : Holding(work, p, r) => work'[p].saved[r] = work[p].saved[r]
    PROVE  Visible'[r] = Visible[r]
<1>1. VisibleIs /\ VisibleIs'
  BY WhatOthersSee, PTL
<1>2. CASE \E p \in Sorter : Holding(work, p, r)
  <2>1. PICK p \in Sorter : Holding(work, p, r) /\ Visible[r] = work[p].saved[r]
    BY <1>1, <1>2 DEF VisibleIs
  <2>2. PICK o \in Sorter : Holding(work', o, r) /\ Visible'[r] = work'[o].saved[r]
    BY <1>1, <1>2 DEF VisibleIs
  <2>3. o = p
    BY <2>1, <2>2, OneHolder
  <2> QED
    BY <2>1, <2>2, <2>3
<1>3. CASE \A p \in Sorter : ~Holding(work, p, r)
  BY <1>1, <1>3 DEF VisibleIs
<1> QED
  BY <1>2, <1>3

\* A step that moves nothing others see, and commits nothing, leaves what was last
\* committed as it was.
LEMMA UnseenKeeps ==
    ASSUME OrderInv, OrderTypeOK', UNCHANGED <<collection, orderHistory>>,
           \A q \in Sorter : work'[q] # Free =>
               RequestInv(work'[q], item', Members', Visible', collection'),
           Visible' = Visible,
           \A r \in Item : item'[r].life = item[r].life
    PROVE  OrderInv' /\ Shelf' = Shelf
<1>0. Shelf' = Shelf
  BY DEF Shelf
<1>1. Members' = Members
  BY DEF Members
<1>2. Named(listed) \subseteq Item
  BY ListedFacts
<1>3. \A r \in Named(listed') : item'[r].life # "none"
  BY <1>2 DEF OrderInv, orderHistory
<1>4. \A r \in Named(listed') \ edited' : Visible'[r] = Place(listed', r) - 1
  BY DEF OrderInv, orderHistory
<1>5. NobodyLeftOut' /\ ListedExplained'
  BY <1>1 DEF OrderInv, NobodyLeftOut, ListedExplained, orderHistory
<1> QED
  BY <1>0, <1>3, <1>4, <1>5 DEF OrderInv, RequestInv

\* A request that enters changes no row.  (the checks of the reorders,
\* addGalleryImage)
LEMMA EnterKeeps ==
    ASSUME OrderInv, NEW q \in Sorter, NEW c \in Work, Enter(q, c), DOMAIN c.saved = {},
           RequestInv(c, item, Members, Visible, collection)
    PROVE  OrderInv' /\ Shelf' = Shelf
<1>1. /\ work' = [work EXCEPT ![q] = c] /\ work[q] = Free
      /\ UNCHANGED <<collection, item, orderHistory>>
  BY DEF Enter
<1>2. \A p \in Sorter : work'[p] = IF p = q THEN c ELSE work[p]
  BY <1>1 DEF OrderInv, OrderTypeOK
<1>3. OrderTypeOK'
  BY <1>1, <1>2 DEF OrderInv, OrderTypeOK, orderHistory
<1>4. \A p \in Sorter, r \in Item : Holding(work', p, r) <=> Holding(work, p, r)
  BY <1>1, <1>2 DEF Holding
<1>5. Visible' = Visible
  <2>1. \A r \in Item, p \in Sorter : Holding(work, p, r) => work'[p].saved = work[p].saved
    BY <1>1, <1>2 DEF Holding
  <2>2. \A r \in Item : Visible'[r] = Visible[r]
    BY <1>1, <1>4, <2>1, SeenAsBefore DEF OrderInv
  <2> QED
    BY <2>2 DEF Visible
<1>6. Members' = Members
  BY <1>1 DEF Members
<1>7. ASSUME NEW p \in Sorter, work'[p] # Free
      PROVE  RequestInv(work'[p], item', Members', Visible', collection')
  BY <1>1, <1>2, <1>5, <1>6, <1>7 DEF OrderInv, RequestInv
<1> QED
  BY <1>1, <1>3, <1>5, <1>7, UnseenKeeps

-----------------------------------------------------------------------------
(* Steps of a reorder                                                    *)

\* The search for the ids: as many rows were counted as the list names, and those
\* it names have been counted or have come to life since.  (reorder of banners)
LEMMA FindKeeps ==
    ASSUME OrderInv, NEW q \in Sorter, FindListed(q)
    PROVE  OrderInv' /\ Shelf' = Shelf
<1> DEFINE c == work[q]
           d == [c EXCEPT !.op = "write"]
<1>1. c # Free /\ c.op = "count" /\ Named(c.list) \subseteq Members
  BY DEF FindListed, Busy
<1>2. c \in Work /\ RequestInv(c, item, Members, Visible, collection)
  BY <1>1 DEF OrderInv, OrderTypeOK, RequestInv
<1>3. c.list \in Lists /\ ~Repeats(c.list) /\ c.next = 1 /\ DOMAIN c.saved = {}
  BY <1>1, <1>2 DEF RequestInv, Shaped
<1>4. /\ d \in Work /\ d.op = "write" /\ d.missed = c.missed
      /\ d.list = c.list /\ d.next = 1 /\ d.saved = c.saved
  BY <1>2, <1>3 DEF Work
<1>5. /\ work' = [work EXCEPT ![q] = d]
      /\ UNCHANGED <<collection, item, orderHistory>>
  BY <1>1 DEF FindListed
<1> HIDE DEF d
<1>6. \A p \in Sorter : work'[p] = IF p = q THEN d ELSE work[p]
  BY <1>5 DEF OrderInv, OrderTypeOK
<1>7. OrderTypeOK'
  <2>1. d # Free
    BY <1>4, OrderAssumption
  <2> QED
    BY <1>1, <1>4, <1>5, <1>6, <2>1 DEF OrderInv, OrderTypeOK, orderHistory
<1>8. Explained(c.list, Members, c.missed) /\ collection = "listed"
  <2>1. PICK counted \in SUBSET Item :
           Cardinality(counted) = Len(c.list) /\ Members \subseteq counted \cup c.missed
    BY <1>1, <1>2 DEF RequestInv, NothingMissed
  <2>2. Cardinality(Named(c.list)) = Cardinality(counted)
    BY <1>3, <2>1 DEF Repeats
  <2>3. Members \cup Named(c.list) \subseteq counted \cup c.missed
    BY <1>1, <2>1
  <2>4. Explained(c.list, Members, c.missed)
    BY <2>2, <2>3 DEF Explained
  <2>5. collection = "listed"
    BY <1>1, <1>2 DEF RequestInv, NothingMissed
  <2> QED
    BY <2>4, <2>5
<1>9. RequestInv(d, item, Members, Visible, collection)
  <2>1. Updated(d) = {}
    BY <1>4 DEF Updated
  <2>2. Shaped(d)
    <3>1. Len(c.list) \in Nat
      BY <1>3, ListShape
    <3> QED
      BY <1>3, <1>4, <2>1, <3>1 DEF Shaped
  <2>3. InPlace(d, item)
    BY <1>4 DEF InPlace
  <2>4. NothingMissed(d, Members, collection)
    BY <1>4, <1>8 DEF NothingMissed
  <2> QED
    BY <1>4, <2>2, <2>3, <2>4 DEF RequestInv, Above
<1>10. Visible' = Visible
  <2>1. \A r \in Item, p \in Sorter :
          /\ Holding(work', p, r) <=> Holding(work, p, r)
          /\ Holding(work, p, r) => work'[p].saved = work[p].saved
    BY <1>1, <1>3, <1>4, <1>6 DEF Holding
  <2>2. \A r \in Item : Visible'[r] = Visible[r]
    BY <1>5, <2>1, SeenAsBefore DEF OrderInv
  <2> QED
    BY <2>2 DEF Visible
<1>11. Members' = Members
  BY <1>5 DEF Members
<1>12. ASSUME NEW p \in Sorter, work'[p] # Free
       PROVE  RequestInv(work'[p], item', Members', Visible', collection')
  BY <1>5, <1>6, <1>9, <1>10, <1>11, <1>12 DEF OrderInv, RequestInv
<1> QED
  BY <1>5, <1>7, <1>10, <1>12, UnseenKeeps

\* One update moves one row, which others see where it was.  (the loops of updates
\* in reorderContent, reorder and reorderGallery)
LEMMA WriteKeeps ==
    ASSUME OrderInv, NEW q \in Sorter, WriteNext(q)
    PROVE  OrderInv' /\ Shelf' = Shelf
<1> DEFINE c == work[q]
           r == c.list[c.next]
           saved == [s \in DOMAIN c.saved \cup {r} |->
                        IF s \in DOMAIN c.saved THEN c.saved[s] ELSE item[s].order]
           d == [c EXCEPT !.next = c.next + 1, !.saved = saved]
           at == c.next
           row == [item[r] EXCEPT !.order = at - 1]
<1>1. /\ c # Free /\ c.op = "write" /\ c.next <= Len(c.list)
      /\ Stored(r) /\ ~LockedByOther(q, r)
  BY DEF WriteNext, Busy
<1>2. c \in Work /\ RequestInv(c, item, Members, Visible, collection)
  BY <1>1 DEF OrderInv, OrderTypeOK, RequestInv
<1>3. /\ c.list \in Lists /\ at \in 1..Len(c.list) /\ DOMAIN c.saved = Updated(c)
      /\ Len(c.list) \in Nat
  BY <1>1, <1>2, ListShape DEF RequestInv, Shaped
<1>4. /\ r \in Item /\ at \in Nat /\ at >= 1 /\ at - 1 \in Orders
      /\ c.list \in [1..Len(c.list) -> Item]
  BY <1>3, ListShape
<1>5. DOMAIN c.saved \subseteq Item /\ c.saved \in [DOMAIN c.saved -> Orders]
  BY <1>2 DEF Work
<1>6. saved \in [DOMAIN c.saved \cup {r} -> Orders]
  BY <1>4, <1>5 DEF OrderInv, OrderTypeOK, Entry
<1>7. /\ d \in Work /\ d.op = "write" /\ d.list = c.list /\ d.next = at + 1 /\ d.saved = saved
      /\ d.missed = c.missed /\ DOMAIN d.saved = DOMAIN c.saved \cup {r}
  <2>1. saved \in UNION {[rows -> Orders] : rows \in SUBSET Item}
    BY <1>4, <1>5, <1>6
  <2>2. c.next + 1 \in Nat
    BY <1>4
  <2> HIDE DEF saved
  <2>3. d \in Work
    BY <1>2, <2>1, <2>2 DEF Work
  <2> QED
    BY <1>1, <1>2, <1>6, <2>3 DEF Work
<1>8. /\ item' = [item EXCEPT ![r] = row]
      /\ work' = [work EXCEPT ![q] = d]
      /\ UNCHANGED <<collection, orderHistory>>
  BY DEF WriteNext
<1>9. row \in Entry /\ row.life = item[r].life /\ row.order = at - 1
  BY <1>4 DEF OrderInv, OrderTypeOK, Entry
<1>10. \A s \in DOMAIN d.saved :
         d.saved[s] = IF s \in DOMAIN c.saved THEN c.saved[s] ELSE item[s].order
  BY <1>7
<1> HIDE DEF d, saved, row
<1>11. /\ \A p \in Sorter : work'[p] = IF p = q THEN d ELSE work[p]
       /\ \A s \in Item : item'[s] = IF s = r THEN row ELSE item[s]
  BY <1>8 DEF OrderInv, OrderTypeOK
<1>12. ASSUME NEW p \in Sorter, p # q, work[p] # Free PROVE r \notin DOMAIN work[p].saved
  BY <1>1, <1>12 DEF LockedByOther, Busy, OrderInv, RequestInv, Shaped
<1>13. OrderTypeOK'
  <2>1. work' \in [Sorter -> Work \cup {Free}] /\ item' \in [Item -> Entry]
    BY <1>7, <1>8, <1>9 DEF OrderInv, OrderTypeOK
  <2>2. ASSUME NEW p \in Sorter, NEW o \in Sorter, p # o, work'[p] # Free, work'[o] # Free
        PROVE  DOMAIN work'[p].saved \cap DOMAIN work'[o].saved = {}
    BY <1>1, <1>7, <1>11, <1>12, <2>2 DEF OrderInv, OrderTypeOK
  <2> QED
    BY <1>8, <2>1, <2>2 DEF OrderInv, OrderTypeOK, orderHistory
<1>14. \A s \in Item : item'[s].life = item[s].life
  BY <1>9, <1>11
<1>15. Members' = Members
  BY <1>14 DEF Members
<1>16. Visible' = Visible
  <2>1. ASSUME NEW s \in Item, s # r PROVE Visible'[s] = Visible[s]
    <3>1. item'[s].order = item[s].order
      BY <1>11, <2>1
    <3>2. \A p \in Sorter : Holding(work', p, s) <=> Holding(work, p, s)
      BY <1>1, <1>7, <1>11, <2>1, OrderAssumption DEF Holding
    <3>3. \A p \in Sorter : Holding(work, p, s) => work'[p].saved[s] = work[p].saved[s]
      BY <1>7, <1>10, <1>11 DEF Holding
    <3> QED
      BY <3>1, <3>2, <3>3, SeenAsBefore DEF OrderInv
  <2>2. Visible'[r] = Visible[r]
    <3>1. VisibleIs /\ VisibleIs'
      BY WhatOthersSee, PTL
    <3>2. Holding(work', q, r)
      BY <1>7, <1>11, OrderAssumption DEF Holding
    <3>3. \A p \in Sorter : Holding(work', p, r) => p = q
      BY <1>11, <1>12 DEF Holding
    <3>4. Visible'[r] = IF r \in DOMAIN c.saved THEN c.saved[r] ELSE item[r].order
      BY <1>4, <1>7, <1>10, <1>11, <3>1, <3>2, <3>3 DEF VisibleIs
    <3>5. \A p \in Sorter : Holding(work, p, r) => p = q
      BY <1>12 DEF Holding
    <3> QED
      BY <1>1, <1>4, <3>1, <3>4, <3>5 DEF VisibleIs, Holding
  <2>3. \A s \in Item : Visible'[s] = Visible[s]
    BY <2>1, <2>2
  <2> QED
    BY <2>3 DEF Visible
<1>17. RequestInv(d, item', Members', Visible', collection')
  <2>1. \A i : i \in 1 .. d.next - 1 <=> i \in 1 .. c.next - 1 \/ i = at
    BY <1>4, <1>7
  <2>2. Updated(d) = Updated(c) \cup {r}
    BY <1>7, <2>1 DEF Updated
  <2>3. Shaped(d)
    BY <1>3, <1>7, <2>2 DEF Shaped
  <2>4. InPlace(d, item')
    <3> SUFFICES ASSUME NEW i \in 1 .. d.next - 1
                 PROVE  /\ item'[c.list[i]].life \in {"live", "trashed"}
                        /\ (\A j \in 1 .. d.next - 1 : c.list[j] = c.list[i] => j <= i) =>
                               item'[c.list[i]].order = i - 1
      BY <1>7 DEF InPlace
    <3>1. i \in 1..Len(c.list) /\ c.list[i] \in Item /\ i \in Nat
      BY <1>3, <1>4, <2>1
    <3>2. CASE c.list[i] # r
      <4>1. i \in 1 .. c.next - 1
        BY <2>1, <3>2
      <4>2. item'[c.list[i]] = item[c.list[i]]
        BY <1>11, <3>1, <3>2
      <4>3. InPlace(c, item)
        BY <1>2 DEF RequestInv
      <4> QED
        BY <1>1, <2>1, <4>1, <4>2, <4>3 DEF InPlace
    <3>3. CASE c.list[i] = r
      <4>1. item'[c.list[i]].life \in {"live", "trashed"} /\ item'[c.list[i]].order = at - 1
        BY <1>1, <1>4, <1>9, <1>11, <3>3 DEF Stored
      <4>2. at \in 1 .. d.next - 1 /\ (at <= i => i = at)
        BY <1>4, <2>1, <3>1
      <4> QED
        BY <3>3, <4>1, <4>2
    <3> QED
      BY <3>2, <3>3
  <2>5. NothingMissed(d, Members', collection')
    BY <1>1, <1>2, <1>7, <1>8, <1>15 DEF RequestInv, NothingMissed
  <2> QED
    BY <1>7, <2>3, <2>4, <2>5 DEF RequestInv, Above
<1>18. ASSUME NEW p \in Sorter, work'[p] # Free
       PROVE  RequestInv(work'[p], item', Members', Visible', collection')
  <2>1. CASE p = q
    BY <1>11, <1>17, <2>1
  <2>2. CASE p # q
    <3> DEFINE e == work[p]
    <3>1. e = work'[p] /\ e # Free /\ Shaped(e) /\ InPlace(e, item)
      BY <1>11, <1>18, <2>2 DEF OrderInv, RequestInv
    <3>2. e.op = "write" => \A i \in 1 .. e.next - 1 : /\ e.list[i] \in DOMAIN e.saved
                                                       /\ e.list[i] # r
      BY <1>12, <2>2, <3>1 DEF Shaped, Updated
    <3>3. e \in Work
      BY <3>1 DEF OrderInv, OrderTypeOK
    <3>4. DOMAIN e.saved \subseteq Item
      BY <3>3 DEF Work
    <3>5. InPlace(e, item')
      BY <1>11, <3>1, <3>2, <3>4 DEF InPlace
    <3> QED
      BY <1>8, <1>15, <1>16, <3>1, <3>5 DEF OrderInv, RequestInv
  <2> QED
    BY <2>1, <2>2
<1> QED
  BY <1>8, <1>13, <1>14, <1>16, <1>18, UnseenKeeps

\* A transaction that fails puts back what others saw all the time.
LEMMA GiveUpKeeps ==
    ASSUME OrderInv, NEW q \in Sorter, GiveUp(q)
    PROVE  OrderInv' /\ Shelf' = Shelf
<1> DEFINE c == work[q]
<1>1. /\ c # Free /\ work' = [work EXCEPT ![q] = Free]
      /\ item' = [r \in Item |-> IF r \in DOMAIN c.saved
                                 THEN [item[r] EXCEPT !.order = c.saved[r]] ELSE item[r]]
      /\ UNCHANGED <<collection, orderHistory>>
  BY DEF GiveUp
<1>2. c \in Work /\ Shaped(c)
  BY <1>1 DEF OrderInv, RequestInv, OrderTypeOK
<1>3. \A r \in DOMAIN c.saved : c.saved[r] \in Orders
  BY <1>2 DEF Work
<1>4. \A p \in Sorter : work'[p] = IF p = q THEN Free ELSE work[p]
  BY <1>1 DEF OrderInv, OrderTypeOK
<1>5. ASSUME NEW r \in Item
      PROVE  /\ item'[r] \in Entry /\ item'[r].life = item[r].life
             /\ item'[r].order = IF r \in DOMAIN c.saved THEN c.saved[r] ELSE item[r].order
             /\ r \notin DOMAIN c.saved => item'[r] = item[r]
  <2>1. item[r] \in Entry
    BY DEF OrderInv, OrderTypeOK
  <2>2. item'[r] = IF r \in DOMAIN c.saved
                   THEN [item[r] EXCEPT !.order = c.saved[r]] ELSE item[r]
    BY <1>1
  <2> QED
    BY <1>3, <2>1, <2>2 DEF Entry
<1>6. OrderTypeOK'
  BY <1>1, <1>4, <1>5 DEF OrderInv, OrderTypeOK, orderHistory
<1>7. ASSUME NEW p \in Sorter, p # q, work[p] # Free
      PROVE  DOMAIN work[p].saved \cap DOMAIN c.saved = {}
  BY <1>1, <1>7 DEF OrderInv, OrderTypeOK
<1>8. ASSUME NEW r \in Item PROVE Visible'[r] = Visible[r]
  <2>1. CASE r \notin DOMAIN c.saved
    <3>1. \A p \in Sorter : Holding(work', p, r) <=> Holding(work, p, r)
      BY <1>4, <2>1 DEF Holding
    <3>2. \A p \in Sorter : Holding(work, p, r) => work'[p].saved[r] = work[p].saved[r]
      BY <1>4, <2>1 DEF Holding
    <3> QED
      BY <1>5, <2>1, <3>1, <3>2, SeenAsBefore DEF OrderInv
  <2>2. CASE r \in DOMAIN c.saved
    <3>1. VisibleIs /\ VisibleIs'
      BY WhatOthersSee, PTL
    <3>2. Holding(work, q, r)
      BY <1>1, <1>2, <2>2 DEF Holding, Shaped
    <3>3. \A p \in Sorter : Holding(work, p, r) => p = q
      BY <3>2, OneHolder DEF OrderInv
    <3>4. \A p \in Sorter : ~Holding(work', p, r)
      BY <1>4, <3>3 DEF Holding
    <3> QED
      BY <1>5, <2>2, <3>1, <3>2, <3>3, <3>4 DEF VisibleIs
  <2> QED
    BY <2>1, <2>2
<1>9. Visible' = Visible
  BY <1>8 DEF Visible
<1>10. Members' = Members
  BY <1>5 DEF Members
<1>11. ASSUME NEW p \in Sorter, work'[p] # Free
       PROVE  RequestInv(work'[p], item', Members', Visible', collection')
  <2> DEFINE e == work[p]
  <2>1. e = work'[p] /\ e # Free /\ p # q /\ Shaped(e) /\ InPlace(e, item) /\ e \in Work
    BY <1>4, <1>11 DEF OrderInv, RequestInv, OrderTypeOK
  <2>2. DOMAIN e.saved \subseteq Item
    BY <2>1 DEF Work
  <2>3. e.op = "write" => \A i \in 1 .. e.next - 1 : e.list[i] \in DOMAIN e.saved
    BY <2>1 DEF Shaped, Updated
  <2>4. e.op = "write" => \A i \in 1 .. e.next - 1 : item'[e.list[i]] = item[e.list[i]]
    BY <1>5, <1>7, <2>1, <2>2, <2>3
  <2>5. InPlace(e, item')
    BY <2>1, <2>4 DEF InPlace
  <2> QED
    BY <1>1, <1>9, <1>10, <2>1, <2>5 DEF OrderInv, RequestInv
<1> QED
  BY <1>1, <1>5, <1>6, <1>9, <1>11, UnseenKeeps

-----------------------------------------------------------------------------
(* Commits                                                               *)

\* What becomes of the requests in flight when a change of the rows is committed.
\* (PostgreSQL's snapshots, nextGalleryOrder)
LEMMA ProceedIs ==
    ASSUME OrderInv, NEW q \in Sorter \cup {Free}, NEW written, NEW born \in SUBSET Item,
           Proceed(q, written, born)
    PROVE  /\ work' \in [Sorter -> Work \cup {Free}]
           /\ \A p \in Sorter : work'[p] = Free <=> p = q \/ work[p] = Free
           /\ \A p \in Sorter : work'[p] # Free =>
                /\ work'[p].op = work[p].op /\ work'[p].list = work[p].list
                /\ work'[p].next = work[p].next /\ work'[p].saved = work[p].saved
                /\ work[p].op # "insert" => work'[p].missed = work[p].missed \cup born
                /\ work[p].op = "insert" => work'[p].outdated = TRUE
<1> DEFINE outrun(p) == /\ collection = "content" /\ work[p].op = "write"
                        /\ written \cap Named(work[p].list) # {}
<1>1. ASSUME NEW p \in Sorter, p # q, work[p] # Free
      PROVE  /\ work'[p] \in Work
             /\ work'[p].op = work[p].op /\ work'[p].list = work[p].list
             /\ work'[p].next = work[p].next /\ work'[p].saved = work[p].saved
             /\ work[p].op # "insert" => work'[p].missed = work[p].missed \cup born
             /\ work[p].op = "insert" => work'[p].outdated = TRUE
  <2> DEFINE e == work[p]
             missed == IF e.op = "insert" THEN e.missed ELSE e.missed \cup born
             outdated == e.op = "insert"
             late == e.outrun \/ outrun(p)
  <2>1. e \in Work
    BY <1>1 DEF OrderInv, OrderTypeOK
  <2>2. work'[p] = [e EXCEPT !.missed = missed, !.outdated = outdated, !.outrun = late]
    BY <1>1 DEF Proceed
  <2>3. /\ missed \in SUBSET Item /\ outdated \in BOOLEAN
    BY <2>1 DEF Work
  <2>4. late \in BOOLEAN
    OBVIOUS
  <2>5. e.op = "insert" => outdated = TRUE
    OBVIOUS
  <2>6. e.op # "insert" => missed = e.missed \cup born
    OBVIOUS
  <2> HIDE DEF missed, outdated, late
  <2> QED
    BY <2>1, <2>2, <2>3, <2>4, <2>5, <2>6 DEF Work
<1>2. ASSUME NEW p \in Sorter, p = q \/ work[p] = Free PROVE work'[p] = Free
  BY <1>2 DEF Proceed
<1>3. \A p \in Sorter : work'[p] \in Work \cup {Free}
  BY <1>1, <1>2
<1>4. work' \in [Sorter -> Work \cup {Free}]
  <2>1. work' = [p \in Sorter |-> work'[p]]
    BY DEF Proceed
  <2> QED
    BY <1>3, <2>1
<1> QED
  BY <1>1, <1>2, <1>4, OrderAssumption

\* Rows that come to life explain themselves.
LEMMA MoreComes ==
    ASSUME NEW list, NEW members, NEW since, NEW later, NEW more,
           Explained(list, members, since), later \subseteq members \cup more,
           since \subseteq more
    PROVE  Explained(list, later, more)
BY DEF Explained

\* The invariant of the requests that remain, when those rows stay where they are
\* that one of them has updated.
LEMMA RequestsKeep ==
    ASSUME OrderInv, NEW q \in Sorter \cup {Free}, NEW written, NEW born \in SUBSET Item,
           Proceed(q, written, born), Members' \subseteq Members \cup born,
           UNCHANGED collection,
           \A r \in Item : \/ item'[r] = item[r]
                           \/ \A p \in Sorter : ~Holding(work, p, r)
    PROVE  \A p \in Sorter : work'[p] # Free =>
               RequestInv(work'[p], item', Members', Visible', collection')
<1> SUFFICES ASSUME NEW p \in Sorter, work'[p] # Free
             PROVE  RequestInv(work'[p], item', Members', Visible', collection')
  OBVIOUS
<1> DEFINE c == work[p]
           d == work'[p]
<1>1. /\ c # Free /\ d.op = c.op /\ d.list = c.list /\ d.next = c.next /\ d.saved = c.saved
      /\ c.op # "insert" => d.missed = c.missed \cup born
      /\ c.op = "insert" => d.outdated = TRUE
  BY ProceedIs
<1>2. c \in Work /\ RequestInv(c, item, Members, Visible, collection)
  BY <1>1 DEF OrderInv, OrderTypeOK, RequestInv
<1> HIDE DEF d
<1>3. Shaped(d)
  BY <1>1, <1>2 DEF RequestInv, Shaped, Updated
<1>4. InPlace(d, item')
  <2>1. DOMAIN c.saved \subseteq Item
    BY <1>2 DEF Work
  <2>2. c.op = "write" => \A i \in 1 .. c.next - 1 :
          c.list[i] \in Item /\ Holding(work, p, c.list[i])
    BY <1>1, <1>2, <2>1 DEF RequestInv, Shaped, Updated, Holding
  <2>3. c.op = "write" => \A i \in 1 .. c.next - 1 : item'[c.list[i]] = item[c.list[i]]
    BY <2>2
  <2> QED
    BY <1>1, <1>2, <2>3 DEF RequestInv, InPlace
<1>5. NothingMissed(d, Members', collection')
  <2>1. CASE c.op = "write"
    <3>1. Explained(c.list, Members, c.missed) => Explained(d.list, Members', d.missed)
      BY <1>1, <2>1, MoreComes
    <3>2. d.op = "write" /\ d.list = c.list /\ d.missed = c.missed \cup born
      BY <1>1, <2>1
    <3>3. ~Repeats(c.list) => /\ Explained(c.list, Members, c.missed)
                              /\ collection # "listed" => Members \subseteq Named(c.list) \cup c.missed
      BY <1>2, <2>1 DEF RequestInv, NothingMissed
    <3>4. ~Repeats(c.list) => /\ Explained(d.list, Members', d.missed)
                              /\ collection' # "listed" => Members' \subseteq Named(d.list) \cup d.missed
      BY <3>1, <3>2, <3>3
    <3> QED
      BY <3>2, <3>4 DEF NothingMissed
  <2>2. CASE c.op = "count"
    <3>1. PICK counted \in SUBSET Item :
             Cardinality(counted) = Len(c.list) /\ Members \subseteq counted \cup c.missed
      BY <1>2, <2>2 DEF RequestInv, NothingMissed
    <3>2. Cardinality(counted) = Len(d.list) /\ Members' \subseteq counted \cup d.missed
      BY <1>1, <2>2, <3>1
    <3>3. collection' = "listed"
      BY <1>2, <2>2 DEF RequestInv, NothingMissed
    <3> QED
      BY <1>1, <2>2, <3>2, <3>3 DEF NothingMissed
  <2>3. CASE c.op = "insert"
    BY <1>1, <2>3 DEF NothingMissed
  <2> QED
    BY <1>2, <2>1, <2>2, <2>3 DEF Work
<1>6. Above(d, Members', Visible')
  BY <1>1 DEF Above
<1> QED
  BY <1>3, <1>4, <1>5, <1>6 DEF RequestInv, d

\* Row locks stay apart when requests only end.
LEMMA LocksApart ==
    ASSUME OrderInv, work' \in [Sorter -> Work \cup {Free}],
           \A p \in Sorter : work'[p] # Free => work[p] # Free /\ work'[p].saved = work[p].saved
    PROVE  \A p, o \in Sorter : p # o /\ work'[p] # Free /\ work'[o] # Free =>
               DOMAIN work'[p].saved \cap DOMAIN work'[o].saved = {}
BY DEF OrderInv, OrderTypeOK

\* A row that nobody has locked is written, by a single statement or by the
\* insertion that ends slot q: what the last list says of the others stands.
\* (create, update, trash, restore, purge, addGalleryImage)
LEMMA WriteItemKeeps ==
    ASSUME OrderInv, NEW q \in Sorter \cup {Free}, NEW r \in Item, NEW entry \in Entry,
           q \in Sorter => Busy(q, "insert"),
           \A p \in Sorter : ~Holding(work, p, r),
           entry.life # "none",
           \/ edited' = edited /\ (entry.order = item[r].order \/ item[r].life = "none")
           \/ edited' = edited \cup ({r} \cap Named(listed)),
           WriteItem(q, r, entry)
    PROVE  OrderInv' /\ Shelf' = [Shelf EXCEPT ![r] = [life |-> entry.life, order |-> entry.order]]
<1> DEFINE born == IF entry.life = "live" /\ item[r].life # "live" THEN {r} ELSE {}
<1>1. /\ item' = [item EXCEPT ![r] = entry] /\ Proceed(q, {r}, born)
      /\ newcomers' = IF listed = <<>> THEN {} ELSE newcomers \cup (born \ Named(listed))
      /\ UNCHANGED <<collection, listed>>
  BY DEF WriteItem
<1>2. \A s \in Item : item'[s] = IF s = r THEN entry ELSE item[s]
  BY <1>1 DEF OrderInv, OrderTypeOK
<1>3. born \in SUBSET Item
  OBVIOUS
<1>4. Members' \subseteq Members \cup born
  BY <1>2 DEF Members
<1> HIDE DEF born
<1>5. /\ work' \in [Sorter -> Work \cup {Free}]
      /\ \A p \in Sorter : work'[p] = Free <=> p = q \/ work[p] = Free
      /\ \A p \in Sorter : work'[p] # Free =>
             work'[p].op = work[p].op /\ work'[p].saved = work[p].saved
  BY <1>1, <1>3, ProceedIs
<1>6. \A p, o \in Sorter : p # o /\ work'[p] # Free /\ work'[o] # Free =>
          DOMAIN work'[p].saved \cap DOMAIN work'[o].saved = {}
  BY <1>5, LocksApart
<1>7. OrderTypeOK'
  <2>1. edited' \subseteq Item /\ newcomers' \subseteq Item
    BY <1>1, <1>3 DEF OrderInv, OrderTypeOK
  <2>2. item' \in [Item -> Entry]
    BY <1>1 DEF OrderInv, OrderTypeOK
  <2> QED
    BY <1>1, <1>5, <1>6, <2>1, <2>2 DEF OrderInv, OrderTypeOK
<1>8. \A p \in Sorter : work'[p] # Free => RequestInv(work'[p], item', Members', Visible', collection')
  BY <1>1, <1>2, <1>3, <1>4, RequestsKeep
<1>9. Named(listed) \subseteq Item /\ (listed # <<>> => listed \in Lists)
  BY ListedFacts
<1>10. \A s \in Named(listed') : item'[s].life # "none"
  BY <1>1, <1>2, <1>9 DEF OrderInv
<1>11. ASSUME NEW s \in Item, item'[s].order = item[s].order PROVE Visible'[s] = Visible[s]
  <2>1. \A p \in Sorter : Holding(work', p, s) <=> Holding(work, p, s)
    BY <1>5 DEF Holding, Busy
  <2>2. \A p \in Sorter : Holding(work, p, s) => work'[p].saved[s] = work[p].saved[s]
    BY <1>5, <2>1 DEF Holding
  <2> QED
    BY <1>11, <2>1, <2>2, SeenAsBefore DEF OrderInv
<1>12. ASSUME NEW s \in Named(listed') \ edited' PROVE Visible'[s] = Place(listed', s) - 1
  <2>1. s \in Item /\ s \in Named(listed) \ edited
    BY <1>1, <1>9, <1>12
  <2>2. item'[s].order = item[s].order
    BY <1>1, <1>2, <1>12, <2>1 DEF OrderInv
  <2> QED
    BY <1>1, <1>11, <2>1, <2>2 DEF OrderInv
<1>13. NobodyLeftOut' /\ ListedExplained'
  <2> SUFFICES ASSUME listed # <<>>, ~Repeats(listed)
               PROVE  /\ Cardinality(Members' \ Named(listed)) <= Cardinality(newcomers')
                      /\ collection # "listed" => Members' \subseteq Named(listed) \cup newcomers'
                      /\ Explained(listed, Members', newcomers')
    BY <1>1 DEF NobodyLeftOut, ListedExplained
  <2>1. newcomers' = newcomers \cup (born \ Named(listed))
    BY <1>1
  <2>2. Members' \subseteq Members \cup (born \ Named(listed)) \cup Named(listed)
    BY <1>4
  <2>3. PICK counted \in SUBSET Item :
           /\ Cardinality(counted) = Cardinality(Named(listed))
           /\ Members \cup Named(listed) \subseteq counted \cup newcomers
    BY DEF OrderInv, ListedExplained, Explained
  <2>4. Members' \cup Named(listed) \subseteq counted \cup newcomers'
    BY <2>1, <2>2, <2>3
  <2>5. Explained(listed, Members', newcomers')
    BY <2>3, <2>4 DEF Explained
  <2>6. Members' \in SUBSET Item /\ newcomers' \in SUBSET Item
    BY <1>7 DEF OrderTypeOK, Members
  <2>7. Cardinality(Members' \ Named(listed)) <= Cardinality(newcomers')
    BY <1>9, <2>5, <2>6, LeftOutBound
  <2>8. collection # "listed" => Members' \subseteq Named(listed) \cup newcomers'
    BY <2>1, <2>2 DEF OrderInv, NobodyLeftOut
  <2> QED
    BY <2>5, <2>7, <2>8
<1>14. Visible'[r] = entry.order
  <2>1. VisibleIs'
    BY WhatOthersSee, PTL
  <2>2. \A p \in Sorter : ~Holding(work', p, r)
    BY <1>5 DEF Holding
  <2> QED
    BY <1>2, <2>1, <2>2 DEF VisibleIs
<1>15. Shelf' = [Shelf EXCEPT ![r] = [life |-> entry.life, order |-> entry.order]]
  <2>1. \A s \in Item \ {r} : item'[s] = item[s] /\ Visible'[s] = Visible[s]
    BY <1>2, <1>11
  <2> QED
    BY <1>2, <1>14, <2>1 DEF Shelf
<1> QED
  BY <1>7, <1>8, <1>10, <1>12, <1>13, <1>15 DEF OrderInv, RequestInv

\* A reorder commits: all its rows have their last place, and of the rows it does
\* not name all came after its check.  (reorderContent, reorder, reorderGallery)
LEMMA CommitKeeps ==
    ASSUME OrderInv, NEW q \in Sorter, CommitReorder(q)
    PROVE  OrderInv' /\ Atomic!ShelfNext
<1> DEFINE c == work[q]
<1>1. /\ c # Free /\ c.op = "write" /\ c.next = Len(c.list) + 1
      /\ Proceed(q, Named(c.list), {})
      /\ listed' = c.list /\ edited' = {} /\ newcomers' = c.missed
      /\ UNCHANGED <<collection, item>>
  BY DEF CommitReorder, Busy
<1>2. c \in Work /\ RequestInv(c, item, Members, Visible, collection)
  BY <1>1 DEF OrderInv, OrderTypeOK, RequestInv
<1>3. c.list \in Lists /\ DOMAIN c.saved = Updated(c)
  BY <1>1, <1>2 DEF RequestInv, Shaped
<1>4. /\ Len(c.list) \in Nat /\ DOMAIN c.list = 1..Len(c.list) /\ c.list # <<>>
      /\ Named(c.list) \subseteq Item
  BY <1>3, ListShape
<1>5. /\ 1 .. c.next - 1 = DOMAIN c.list
      /\ Updated(c) = Named(c.list)
  BY <1>1, <1>4 DEF Updated, Named
<1>6. Members' = Members
  BY <1>1 DEF Members
<1>7. /\ work' \in [Sorter -> Work \cup {Free}]
      /\ \A p \in Sorter : work'[p] = Free <=> p = q \/ work[p] = Free
      /\ \A p \in Sorter : work'[p] # Free =>
             work'[p].op = work[p].op /\ work'[p].saved = work[p].saved
  <2>1. q \in Sorter \cup {Free} /\ {} \in SUBSET Item
    OBVIOUS
  <2> QED
    BY <1>1, <2>1, ProceedIs
<1>8. \A p, o \in Sorter : p # o /\ work'[p] # Free /\ work'[o] # Free =>
          DOMAIN work'[p].saved \cap DOMAIN work'[o].saved = {}
  BY <1>7, LocksApart
<1>9. OrderTypeOK'
  <2>1. newcomers' \subseteq Item
    BY <1>1, <1>2 DEF Work
  <2> QED
    BY <1>1, <1>3, <1>7, <1>8, <2>1 DEF OrderInv, OrderTypeOK
<1>10. \A p \in Sorter : work'[p] # Free => RequestInv(work'[p], item', Members', Visible', collection')
  BY <1>1, <1>6, RequestsKeep
<1>11. ASSUME NEW r \in Named(listed')
       PROVE  /\ item'[r].life \in {"live", "trashed"}
              /\ Visible'[r] = Place(listed', r) - 1
  <2> DEFINE i == Place(c.list, r)
  <2>1. r \in Named(c.list) /\ r \in Item
    BY <1>1, <1>4, <1>11
  <2>2. /\ i \in DOMAIN c.list /\ c.list[i] = r
        /\ \A j \in DOMAIN c.list : c.list[j] = r => j <= i
    BY <1>3, <2>1, LastPlace
  <2> HIDE DEF i
  <2>3. item[r].life \in {"live", "trashed"} /\ item[r].order = i - 1
    BY <1>1, <1>2, <1>5, <2>2 DEF RequestInv, InPlace
  <2>4. Holding(work, q, r)
    BY <1>1, <1>3, <1>5, <2>1 DEF Holding
  <2>5. \A p \in Sorter : ~Holding(work', p, r)
    <3> SUFFICES ASSUME NEW p \in Sorter, Holding(work', p, r) PROVE FALSE
      OBVIOUS
    <3>1. Holding(work, p, r) /\ p # q
      BY <1>7 DEF Holding
    <3> QED
      BY <2>4, <3>1, OneHolder DEF OrderInv
  <2>6. VisibleIs'
    BY WhatOthersSee, PTL
  <2>7. Visible'[r] = item'[r].order
    BY <2>1, <2>5, <2>6 DEF VisibleIs
  <2> QED
    BY <1>1, <2>3, <2>7 DEF i
<1>12. NobodyLeftOut' /\ ListedExplained'
  <2> SUFFICES ASSUME ~Repeats(c.list)
               PROVE  /\ Cardinality(Members \ Named(c.list)) <= Cardinality(c.missed)
                      /\ collection # "listed" => Members \subseteq Named(c.list) \cup c.missed
                      /\ Explained(c.list, Members, c.missed)
    BY <1>1, <1>6 DEF NobodyLeftOut, ListedExplained
  <2>1. /\ Explained(c.list, Members, c.missed)
        /\ collection # "listed" => Members \subseteq Named(c.list) \cup c.missed
    BY <1>1, <1>2 DEF RequestInv, NothingMissed
  <2>2. Members \in SUBSET Item /\ c.missed \in SUBSET Item
    BY <1>2 DEF Members, Work
  <2>3. Cardinality(Members \ Named(c.list)) <= Cardinality(c.missed)
    BY <1>4, <2>1, <2>2, LeftOutBound
  <2> QED
    BY <2>1, <2>3
<1>13. OrderInv'
  BY <1>9, <1>10, <1>11, <1>12 DEF OrderInv, RequestInv
<1>14. ASSUME NEW r \in Item \ Named(c.list) PROVE Visible'[r] = Visible[r]
  <2>1. ~Holding(work, q, r)
    BY <1>3, <1>5 DEF Holding
  <2>2. \A p \in Sorter : Holding(work', p, r) <=> Holding(work, p, r)
    BY <1>7, <2>1 DEF Holding
  <2>3. \A p \in Sorter : Holding(work, p, r) => work'[p].saved[r] = work[p].saved[r]
    BY <1>7, <2>2 DEF Holding
  <2> QED
    BY <1>1, <2>2, <2>3, SeenAsBefore DEF OrderInv
<1>15. Atomic!Arrange(c.list)
  <2>1. \A r \in Named(c.list) : Shelf[r].life \in {"live", "trashed"}
    BY <1>1, <1>4, <1>11 DEF Shelf
  <2>2. Shelf' = [r \in Item |-> IF r \in Named(c.list)
                                THEN [Shelf[r] EXCEPT !.order = Place(c.list, r) - 1]
                                ELSE Shelf[r]]
    <3>1. ASSUME NEW r \in Named(c.list)
          PROVE  Shelf'[r] = [Shelf[r] EXCEPT !.order = Place(c.list, r) - 1]
      <4>1. r \in Item /\ Shelf[r] = [life |-> item[r].life, order |-> Visible[r]]
        BY <1>4 DEF Shelf
      <4>2. Shelf'[r] = [life |-> item[r].life, order |-> Visible'[r]]
        BY <1>1, <4>1 DEF Shelf
      <4>3. Visible'[r] = Place(c.list, r) - 1
        BY <1>1, <1>11
      <4> QED
        BY <4>1, <4>2, <4>3
    <3>2. ASSUME NEW r \in Item \ Named(c.list) PROVE Shelf'[r] = Shelf[r]
      BY <1>1, <1>14, <3>2 DEF Shelf
    <3> QED
      BY <3>1, <3>2 DEF Shelf
  <2> QED
    BY <2>1, <2>2 DEF Atomic!Arrange, Atomic!There, Atomic!LastPlaceIn, Named, Place
<1> QED
  BY <1>3, <1>13, <1>15 DEF Atomic!ShelfNext

\* A row that nobody has locked is held by no transaction; so is one that does not
\* exist yet.
LEMMA FreeRow ==
    ASSUME OrderInv, NEW r \in Item, Unlocked(r) \/ item[r].life = "none"
    PROVE  \A p \in Sorter : ~Holding(work, p, r)
<1> SUFFICES ASSUME NEW p \in Sorter, Holding(work, p, r) PROVE FALSE
  OBVIOUS
<1>1. CASE Unlocked(r)
  BY <1>1, OrderAssumption DEF Unlocked, LockedByOther, Busy, Holding
<1>2. CASE item[r].life = "none"
  <2>1. /\ work[p] # Free /\ work[p].op = "write" /\ r \in DOMAIN work[p].saved
        /\ Shaped(work[p]) /\ InPlace(work[p], item)
    BY DEF OrderInv, RequestInv, Holding
  <2>2. PICK i \in 1 .. work[p].next - 1 : work[p].list[i] = r
    BY <2>1 DEF Shaped, Updated
  <2>3. item[r].life \in {"live", "trashed"}
    BY <2>1, <2>2 DEF InPlace
  <2> QED
    BY <1>2, <2>3
<1> QED
  BY <1>1, <1>2

\* Rows that come, go and move one at a time.
LEMMA RowKeeps ==
    ASSUME OrderInv, NEW r \in Item, RowStep(r)
    PROVE  OrderInv' /\ (Atomic!ShelfNext \/ Shelf' = Shelf)
<1> DEFINE Goal == OrderInv' /\ (Atomic!ShelfNext \/ Shelf' = Shelf)
<1>0. item[r] \in Entry /\ 0 \in Orders /\ Free \in Sorter \cup {Free} /\ Given \subseteq Orders
  BY OrderAssumption DEF OrderInv, OrderTypeOK, Orders
<1>1. Shelf[r] = [life |-> item[r].life, order |-> Visible[r]]
  BY DEF Shelf
<1>2. ASSUME \A p \in Sorter : ~Holding(work, p, r) PROVE Shelf[r] = item[r]
  <2>1. Visible[r] = item[r].order
    BY <1>2, WhatOthersSee DEF VisibleIs
  <2> QED
    BY <1>0, <1>1, <2>1 DEF Entry
<1>3. ASSUME NEW order \in Orders, Insert(r, order) PROVE Goal
  <2> DEFINE entry == [life |-> "live", order |-> order]
  <2>1. entry \in Entry /\ entry.life # "none"
    BY DEF Entry
  <2>2. item[r].life = "none" /\ WriteItem(Free, r, entry) /\ edited' = edited
    BY <1>3 DEF Insert
  <2> HIDE DEF entry
  <2>3. OrderInv' /\ Shelf' = [Shelf EXCEPT ![r] = [life |-> entry.life, order |-> entry.order]]
    BY <1>0, <2>1, <2>2, FreeRow, WriteItemKeeps, OrderAssumption
  <2>4. Atomic!Appear(r, order)
    BY <1>1, <2>3, <2>2 DEF Atomic!Appear, entry
  <2> QED
    BY <2>3, <2>4 DEF Atomic!ShelfNext
<1>4. ASSUME NEW order \in Orders, EditOrder(r, order) PROVE Goal
  <2> DEFINE entry == [item[r] EXCEPT !.order = order]
  <2>1. entry \in Entry /\ entry.life # "none"
    BY <1>0, <1>4 DEF Entry, EditOrder, Stored
  <2>2. /\ Unlocked(r) /\ WriteItem(Free, r, entry)
        /\ edited' = edited \cup ({r} \cap Named(listed))
    BY <1>4 DEF EditOrder
  <2> HIDE DEF entry
  <2>3. OrderInv' /\ Shelf' = [Shelf EXCEPT ![r] = [life |-> entry.life, order |-> entry.order]]
    BY <1>0, <2>1, <2>2, FreeRow, WriteItemKeeps, OrderAssumption
  <2>4. Shelf[r] = item[r]
    BY <1>2, <2>2, FreeRow
  <2>5. Atomic!Renumber(r, order)
    BY <1>0, <1>4, <2>1, <2>3, <2>4
    DEF Atomic!Renumber, Atomic!There, entry, EditOrder, Stored, Entry
  <2> QED
    BY <2>3, <2>5 DEF Atomic!ShelfNext
<1>5. ASSUME NEW life \in {"trashed", "purged"}, Remove(r, life) PROVE Goal
  <2> DEFINE entry == [item[r] EXCEPT !.life = life]
  <2>1. entry \in Entry /\ entry.life # "none" /\ entry.order = item[r].order
    BY <1>0 DEF Entry
  <2>2. Unlocked(r) /\ WriteItem(Free, r, entry) /\ edited' = edited
    BY <1>5 DEF Remove
  <2> HIDE DEF entry
  <2>3. OrderInv' /\ Shelf' = [Shelf EXCEPT ![r] = [life |-> entry.life, order |-> entry.order]]
    BY <1>0, <2>1, <2>2, FreeRow, WriteItemKeeps, OrderAssumption
  <2>4. Shelf[r] = item[r]
    BY <1>2, <2>2, FreeRow
  <2>5. Atomic!Move(r, life)
    BY <1>0, <1>5, <2>1, <2>3, <2>4 DEF Atomic!Move, Atomic!There, entry, Remove, Stored, Entry
  <2> QED
    BY <2>3, <2>5 DEF Atomic!ShelfNext
<1>6. CASE PutBack(r)
  <2> DEFINE entry == [item[r] EXCEPT !.life = "live"]
  <2>1. entry \in Entry /\ entry.life # "none" /\ entry.order = item[r].order
    BY <1>0 DEF Entry
  <2>2. Unlocked(r) /\ WriteItem(Free, r, entry) /\ edited' = edited
    BY <1>6 DEF PutBack
  <2> HIDE DEF entry
  <2>3. OrderInv' /\ Shelf' = [Shelf EXCEPT ![r] = [life |-> entry.life, order |-> entry.order]]
    BY <1>0, <2>1, <2>2, FreeRow, WriteItemKeeps, OrderAssumption
  <2>4. Shelf[r] = item[r]
    BY <1>2, <2>2, FreeRow
  <2>5. Atomic!Move(r, "live")
    BY <1>0, <1>6, <2>1, <2>3, <2>4 DEF Atomic!Move, Atomic!There, entry, PutBack, Entry
  <2> QED
    BY <2>3, <2>5 DEF Atomic!ShelfNext
<1>7. ASSUME NEW q \in Sorter, InsertLast(q, r) PROVE Goal
  <2> DEFINE entry == [life |-> "live", order |-> work[q].next]
  <2>1. /\ Busy(q, "insert") /\ work[q].next <= OrderBound /\ item[r].life = "none"
        /\ WriteItem(q, r, entry) /\ edited' = edited
    BY <1>7 DEF InsertLast
  <2>2. work[q].next \in Nat
    BY <2>1 DEF Busy, OrderInv, OrderTypeOK, Work
  <2>3. entry \in Entry /\ entry.life # "none"
    BY <2>1, <2>2, OrderAssumption DEF Entry, Orders
  <2> HIDE DEF entry
  <2>4. OrderInv' /\ Shelf' = [Shelf EXCEPT ![r] = [life |-> entry.life, order |-> entry.order]]
    BY <2>1, <2>3, FreeRow, WriteItemKeeps
  <2>5. Atomic!Appear(r, work[q].next)
    BY <1>1, <2>4, <2>1 DEF Atomic!Appear, entry
  <2>6. work[q].next \in Orders
    BY <2>1, <2>2, OrderAssumption DEF Orders
  <2> QED
    BY <2>6, <2>4, <2>5 DEF Atomic!ShelfNext
<1> QED
  BY <1>0, <1>3, <1>4, <1>5, <1>6, <1>7 DEF RowStep

-----------------------------------------------------------------------------
(* Starts                                                                *)

\* How a request starts.
LEMMA StartIs ==
    ASSUME NEW op \in {"count", "write", "insert"}, NEW list \in Lists \cup {<<>>}
    PROVE  LET c == Start(op, list)
           IN  /\ c \in Work /\ c.op = op /\ c.list = list /\ c.next = 1 /\ DOMAIN c.saved = {}
               /\ Updated(c) = {} /\ c.missed = {}
<1> DEFINE c == Start(op, list)
<1>1. <<>> \in UNION {[rows -> Orders] : rows \in SUBSET Item}
  BY NothingSaved
<1>2. c \in Work /\ c.op = op /\ c.list = list /\ c.next = 1 /\ c.saved = <<>> /\ c.missed = {}
  BY <1>1 DEF Start, Work
<1>3. 1 .. c.next - 1 = {}
  BY <1>2
<1> QED
  BY <1>2, <1>3, NothingSaved DEF Updated

\* A list that passed its check in one go names every row.  (reorderContent,
\* reorderGallery)
LEMMA CheckedKeeps ==
    ASSUME OrderInv, NEW q \in Sorter, NEW list \in Lists, Enter(q, Start("write", list)),
           ~Repeats(list) => Named(list) = Members
    PROVE  OrderInv' /\ Shelf' = Shelf
<1> DEFINE c == Start("write", list)
<1>1. /\ c \in Work /\ c.op = "write" /\ c.list = list /\ c.next = 1 /\ DOMAIN c.saved = {}
      /\ Updated(c) = {} /\ c.missed = {}
  BY StartIs
<1>2. Len(list) \in Nat
  BY ListShape
<1> HIDE DEF c
<1>3. ~Repeats(list) => Explained(list, Members, {})
  BY DEF Explained, Members
<1>4. NothingMissed(c, Members, collection)
  BY <1>1, <1>3 DEF NothingMissed
<1>5. RequestInv(c, item, Members, Visible, collection)
  BY <1>1, <1>2, <1>4 DEF RequestInv, Shaped, InPlace, Above
<1> QED
  BY <1>1, <1>5, EnterKeeps DEF c

\* A number that is read for a new row is above those of all others.
\* (nextGalleryOrder)
LEMMA NextOrderAbove ==
    ASSUME OrderInv
    PROVE  NextOrder \in Nat /\ \A s \in Members : Visible[s] < NextOrder
<1> DEFINE S == {Committed(r) : r \in Members}
<1>1. Members \subseteq Item
  BY DEF Members
<1>2. \A r \in Members : Committed(r) = Visible[r] /\ Visible[r] \in Orders
  BY <1>1, VisibleTyped DEF Visible, OrderInv
<1>3. CASE Members = {}
  BY <1>3 DEF NextOrder
<1>4. CASE Members # {}
  <2>1. S \in SUBSET Nat /\ S # {} /\ \A x \in S : x <= OrderBound
    BY <1>2, <1>4, OrderAssumption DEF Orders
  <2>2. IsFiniteSet(S)
    BY <2>1, OrderAssumption, FS_BoundedSetOfNaturals
  <2>3. \A r \in Members : Visible[r] \in S
    BY <1>2
  <2>4. NextOrder = 1 + Max(S)
    BY <1>4 DEF NextOrder
  <2> HIDE DEF S
  <2>5. Max(S) \in Nat /\ \A x \in S : x <= Max(S) /\ x \in Nat
    BY <2>1, <2>2, MaxMember
  <2> QED
    BY <2>3, <2>4, <2>5
<1> QED
  BY <1>3, <1>4

\* The request for a new row reads its number.  (addGalleryImage)
LEMMA ReadLastKeeps ==
    ASSUME OrderInv, NEW q \in Sorter, ReadLastOrder(q)
    PROVE  OrderInv' /\ Shelf' = Shelf
<1> DEFINE s == Start("insert", <<>>)
           c == [s EXCEPT !.next = NextOrder]
<1>1. s \in Work /\ s.op = "insert" /\ DOMAIN s.saved = {}
  BY StartIs
<1>2. NextOrder \in Nat /\ \A r \in Members : Visible[r] < NextOrder
  BY NextOrderAbove
<1> HIDE DEF s
<1>3. c \in Work /\ c.op = "insert" /\ DOMAIN c.saved = {} /\ c.next = NextOrder
  BY <1>1, <1>2 DEF Work
<1>4. Enter(q, c)
  BY DEF ReadLastOrder, s
<1> HIDE DEF c
<1>5. RequestInv(c, item, Members, Visible, collection)
  BY <1>2, <1>3 DEF RequestInv, Shaped, InPlace, NothingMissed, Above
<1> QED
  BY <1>3, <1>4, <1>5, EnterKeeps

\* Every step of a reorder keeps the invariant.
LEMMA SortKeeps ==
    ASSUME OrderInv, NEW q \in Sorter, SortStep(q)
    PROVE  OrderInv' /\ (Atomic!ShelfNext \/ Shelf' = Shelf)
<1>1. ASSUME NEW list \in Lists, CheckContent(q, list) PROVE OrderInv' /\ Shelf' = Shelf
  BY <1>1, CheckedKeeps DEF CheckContent, IsWhole
<1>2. ASSUME NEW list \in Lists, CheckGallery(q, list) PROVE OrderInv' /\ Shelf' = Shelf
  <2>1. ASSUME ~Repeats(list) PROVE Named(list) = Members
    <3>1. Named(list) \subseteq Members /\ Cardinality(Named(list)) = Cardinality(Members)
      BY <1>2, <2>1 DEF CheckGallery, Repeats
    <3>2. IsFiniteSet(Members)
      BY OrderAssumption, FS_Subset DEF Members
    <3> QED
      BY <3>1, <3>2, FS_Subset
  <2> QED
    BY <1>2, <2>1, CheckedKeeps DEF CheckGallery
<1>3. ASSUME NEW list \in Lists, CountListed(q, list) PROVE OrderInv' /\ Shelf' = Shelf
  <2> DEFINE c == Start("count", list)
  <2>1. /\ c \in Work /\ c.op = "count" /\ c.list = list /\ c.next = 1 /\ DOMAIN c.saved = {}
        /\ c.missed = {}
    BY StartIs
  <2>2. /\ Enter(q, c) /\ ~Repeats(list) /\ Len(list) = Cardinality(Members)
        /\ collection = "listed"
    BY <1>3 DEF CountListed
  <2> HIDE DEF c
  <2>3. NothingMissed(c, Members, collection)
    <3>1. Members \in SUBSET Item
      BY DEF Members
    <3> QED
      BY <2>1, <2>2, <3>1 DEF NothingMissed
  <2>4. RequestInv(c, item, Members, Visible, collection)
    BY <2>1, <2>2, <2>3 DEF RequestInv, Shaped, InPlace, Above
  <2> QED
    BY <2>1, <2>2, <2>4, EnterKeeps
<1> QED
  BY <1>1, <1>2, <1>3, FindKeeps, WriteKeeps, CommitKeeps, GiveUpKeeps DEF SortStep

-----------------------------------------------------------------------------
(* The theorems about the order                                          *)

\* Every step keeps the invariant, and is a step of the atomic collection, or none.
LEMMA OrderSteps ==
    OrderInv /\ [OrderNext]_orderVars => OrderInv' /\ [Atomic!ShelfNext]_Shelf
<1> SUFFICES ASSUME OrderInv, [OrderNext]_orderVars
             PROVE  OrderInv' /\ (Atomic!ShelfNext \/ Shelf' = Shelf)
  OBVIOUS
<1>1. CASE UNCHANGED orderVars
  <2>1. /\ collection' = collection /\ item' = item /\ work' = work
        /\ listed' = listed /\ edited' = edited /\ newcomers' = newcomers
    BY <1>1 DEF orderVars, orderHistory
  <2>2. Members' = Members /\ Visible' = Visible
    BY <2>1 DEF Members, Visible, Committed, Unlocked, LockedByOther, Busy
  <2>3. OrderInv'
    BY <2>1, <2>2 DEF OrderInv, OrderTypeOK, NobodyLeftOut, ListedExplained
  <2>4. Shelf' = Shelf
    BY <2>1, <2>2 DEF Shelf
  <2> QED
    BY <2>3, <2>4
<1>2. ASSUME NEW q \in Sorter, SortStep(q) \/ ReadLastOrder(q)
      PROVE  OrderInv' /\ (Atomic!ShelfNext \/ Shelf' = Shelf)
  BY <1>2, SortKeeps, ReadLastKeeps
<1>3. ASSUME NEW r \in Item, RowStep(r)
      PROVE  OrderInv' /\ (Atomic!ShelfNext \/ Shelf' = Shelf)
  BY <1>3, RowKeeps
<1> QED
  BY <1>1, <1>2, <1>3 DEF OrderNext

\* The invariant of the order.  (reorderContent, reorder, reorderGallery)
THEOREM OrderInvariant == OrderSpec => []OrderInv
<1>1. OrderInit => OrderInv
  <2> SUFFICES ASSUME OrderInit PROVE OrderInv
    OBVIOUS
  <2>1. 0 \in Orders
    BY OrderAssumption DEF Orders
  <2>2. OrderTypeOK
    BY <2>1, OrderAssumption DEF OrderInit, OrderTypeOK, Entry
  <2>3. Named(listed) = {}
    BY NothingSaved DEF OrderInit, Named
  <2> QED
    BY <2>2, <2>3 DEF OrderInit, OrderInv, NobodyLeftOut, ListedExplained
<1> QED
  BY <1>1, OrderSteps, PTL DEF OrderSpec

\* Readers see a collection that is arranged in one go: the updates of a reorder,
\* with all that others do between them, are one step or none.  (the updates of
\* reorderContent, reorder and reorderGallery in one transaction)
THEOREM OrderIsAtomic == OrderSpec => Atomic!ShelfSpec
<1>1. OrderInit => Atomic!ShelfInit
  <2> SUFFICES ASSUME OrderInit PROVE \A r \in Item : Visible[r] = 0
    BY DEF OrderInit, Atomic!ShelfInit, Shelf
  <2>1. \A r \in Item, q \in Sorter : ~Holding(work, q, r)
    BY DEF OrderInit, Holding
  <2> QED
    BY <2>1, WhatOthersSee DEF OrderInit, VisibleIs
<1> QED
  BY <1>1, OrderSteps, OrderInvariant, PTL DEF OrderSpec, Atomic!ShelfSpec

\* The order is one that somebody sent, never a mixture of two.  (the updates of
\* reorderContent, reorder and reorderGallery in one transaction)
THEOREM OrderIsOneListAlways == OrderSpec => []OrderIsOneList
<1>1. OrderInv => OrderIsOneList
  BY ListedFacts DEF OrderInv, OrderIsOneList, Visible
<1> QED
  BY <1>1, OrderInvariant, PTL

\* A list leaves out no more rows than came to life since its check, and none that
\* was there where one statement checks it.  ("gửi thiếu sẽ để lại banner mang order cũ")
THEOREM NobodyLeftOutAlways == OrderSpec => []NobodyLeftOut
<1>1. OrderInv => NobodyLeftOut
  BY DEF OrderInv
<1> QED
  BY <1>1, OrderInvariant, PTL

\* An image added without an order comes after all others.  (addGalleryImage)
THEOREM NewComesLastAlways == OrderSpec => NewComesLast
<1> DEFINE Last == \A q \in Sorter, r \in Item :
                     /\ Busy(q, "insert") /\ work'[q] = Free
                     /\ item[r].life = "none" /\ item'[r].life = "live"
                     /\ ~work[q].outdated
                     => \A s \in Members : Committed(s) < item'[r].order
<1>1. OrderInv /\ [OrderNext]_orderVars => [Last]_orderVars
  <2> SUFFICES ASSUME OrderInv, OrderNext, NEW q \in Sorter, NEW r \in Item,
                      Busy(q, "insert"), work'[q] = Free, item[r].life = "none",
                      item'[r].life = "live", ~work[q].outdated, NEW s \in Members
               PROVE  Committed(s) < item'[r].order
    OBVIOUS
  <2>0. work[q] # Free /\ work[q].op = "insert"
    BY DEF Busy
  <2>1. Committed(s) < work[q].next
    BY <2>0 DEF OrderInv, RequestInv, Above, Visible, Members
  <2>2. \A p \in Sorter : ~SortStep(p) /\ ~ReadLastOrder(p)
    <3> SUFFICES ASSUME NEW p \in Sorter, SortStep(p) \/ ReadLastOrder(p) PROVE FALSE
      OBVIOUS
    <3>1. item' # item
      OBVIOUS
    <3>2. item'[r].life # item[r].life
      OBVIOUS
    <3>3. WriteNext(p) \/ GiveUp(p)
      BY <3>1 DEF SortStep, ReadLastOrder, CheckContent, CountListed, CheckGallery, Enter,
         FindListed, CommitReorder
    <3>4. item[r] \in Entry
      BY DEF OrderInv, OrderTypeOK
    <3>5. CASE WriteNext(p)
      <4>1. PICK o, order : item' = [item EXCEPT ![o].order = order]
        BY <3>5 DEF WriteNext
      <4> QED
        BY <3>2, <3>4, <4>1 DEF OrderInv, OrderTypeOK, Entry
    <3>6. CASE GiveUp(p)
      <4>1. item'[r] = IF r \in DOMAIN work[p].saved
                       THEN [item[r] EXCEPT !.order = work[p].saved[r]] ELSE item[r]
        BY <3>6 DEF GiveUp
      <4> QED
        BY <3>2, <3>4, <4>1 DEF Entry
    <3> QED
      BY <3>3, <3>5, <3>6
  <2>3. PICK o \in Item : RowStep(o)
    BY <2>2 DEF OrderNext
  <2>4. PICK p \in Sorter \cup {Free} :
           \E entry : WriteItem(p, o, entry) /\ (p \in Sorter => entry.order = work[p].next)
    <3>1. ASSUME NEW p \in Sorter, InsertLast(p, o)
          PROVE  WriteItem(p, o, [life |-> "live", order |-> work[p].next])
      BY <3>1 DEF InsertLast
    <3>2. CASE \E p \in Sorter : InsertLast(p, o)
      <4>1. PICK p \in Sorter : InsertLast(p, o)
        BY <3>2
      <4> DEFINE entry == [life |-> "live", order |-> work[p].next]
      <4>2. WriteItem(p, o, entry) /\ entry.order = work[p].next
        BY <3>1, <4>1
      <4> HIDE DEF entry
      <4> QED
        BY <4>2
    <3>3. CASE ~ \E p \in Sorter : InsertLast(p, o)
      <4>1. \E entry : WriteItem(Free, o, entry)
        BY <2>3, <3>3 DEF RowStep, Insert, EditOrder, Remove, PutBack
      <4> QED
        BY <4>1, OrderAssumption
    <3> QED
      BY <3>2, <3>3
  <2>5. PICK entry : /\ item' = [item EXCEPT ![o] = entry]
                     /\ p \in Sorter => entry.order = work[p].next
    BY <2>4 DEF WriteItem
  <2>6. o = r /\ item'[r] = entry
    BY <2>5 DEF OrderInv, OrderTypeOK
  <2>7. p = q
    <3>1. \E written, born : Proceed(p, written, born) /\ born \in SUBSET Item
      BY <2>4 DEF WriteItem
    <3> QED
      BY <2>0, <3>1, ProceedIs
  <2> QED
    BY <2>1, <2>5, <2>6, <2>7
<1> QED
  BY <1>1, OrderInvariant, PTL DEF OrderSpec, NewComesLast

-----------------------------------------------------------------------------
(* The items and the gallery of a project                                *)

\* The fields that a command will use are there.
Complements(c) ==
    /\ c.op = "addPart" => c.shown \in BOOLEAN
    /\ c.op \in {"editPart", "hidePart"} => c.part \in Part
    /\ c.op \in {"editImage", "hideImage"} => c.image \in Image

\* The inductive invariant: what an EDITOR is about to write was checked against
\* a project he may change, which has not become anything else.
CommandsInv ==
    \A q \in Hand : command[q] # Nil =>
        /\ Complements(command[q])
        /\ ~command[q].senior /\ ~command[q].overtaken => project.stage = "open"

TreeInv == TreeTypeOK /\ CommandsInv

\* A command that enters has passed the check.  (assertChildEditAllowed)
LEMMA CheckKeeps ==
    ASSUME TreeInv, NEW q \in Hand, NEW c \in Command, Complements(c), Check(q, c)
    PROVE  TreeInv'
<1>1. c \in Command /\ Complements(c)
  OBVIOUS
<1>3. /\ command' = [command EXCEPT ![q] = c]
      /\ UNCHANGED <<project, part, image>>
      /\ c.senior \/ project.stage = "open"
  BY DEF Check, MayEditChildren
<1>4. TreeTypeOK'
  BY <1>1, <1>3 DEF TreeInv, TreeTypeOK
<1>5. CommandsInv'
  <2> SUFFICES ASSUME NEW p \in Hand, command'[p] # Nil
               PROVE  /\ Complements(command'[p])
                      /\ ~command'[p].senior /\ ~command'[p].overtaken => project'.stage = "open"
    BY DEF CommandsInv, Complements
  <2>1. command'[p] = IF p = q THEN c ELSE command[p]
    BY <1>3 DEF TreeInv, TreeTypeOK
  <2>2. CASE p = q
    BY <1>1, <1>3, <2>1, <2>2
  <2>3. CASE p # q
    BY <1>3, <2>1, <2>3 DEF TreeInv, CommandsInv
  <2> QED
    BY <2>2, <2>3
<1> QED
  BY <1>4, <1>5 DEF TreeInv

\* A command that ends leaves the others as they were.
LEMMA CompleteKeeps ==
    ASSUME TreeInv, NEW q \in Hand, Complete(q), UNCHANGED project
    PROVE  CommandsInv' /\ command' \in [Hand -> Command \cup {Nil}]
<1>1. \A p \in Hand : command'[p] = IF p = q THEN Nil ELSE command[p]
  BY DEF Complete, TreeInv, TreeTypeOK
<1> QED
  BY <1>1 DEF Complete, TreeInv, TreeTypeOK, CommandsInv, Complements

\* An item that stays, or comes, as a row of its table leaves every image with
\* the item it had.
LEMMA WritePartKeeps ==
    ASSUME TreeInv, NEW q \in Hand, NEW i \in Part, NEW row \in PartRow,
           row.life \in {part[i].life, "live"}, WritePart(q, i, row)
    PROVE  TreeInv'
<1>1. CommandsInv' /\ command' \in [Hand -> Command \cup {Nil}]
  BY CompleteKeeps DEF WritePart
<1>2. part' \in [Part -> PartRow] /\ UNCHANGED <<project, image>>
  BY DEF WritePart, TreeInv, TreeTypeOK
<1>3. \A j \in Part : part'[j].life \in {part[j].life, "live"}
  BY DEF WritePart, TreeInv, TreeTypeOK
<1> QED
  BY <1>1, <1>2, <1>3 DEF TreeInv, TreeTypeOK, ImageRow

\* The item that an image refers to is there.  (the foreign key of ProjectGallery)
LEMMA WriteImageKeeps ==
    ASSUME TreeInv, NEW q \in Hand, NEW g \in Image, NEW row \in ImageRow,
           row.part # Nil => Kept(part[row.part]), WriteImage(q, g, row)
    PROVE  TreeInv'
<1>1. CommandsInv' /\ command' \in [Hand -> Command \cup {Nil}]
  BY CompleteKeeps DEF WriteImage
<1>2. image' \in [Image -> ImageRow] /\ UNCHANGED <<project, part>>
  BY DEF WriteImage, TreeInv, TreeTypeOK
<1>3. \A h \in Image : image'[h] = IF h = g THEN row ELSE image[h]
  BY DEF WriteImage, TreeInv, TreeTypeOK
<1> QED
  BY <1>1, <1>2, <1>3 DEF TreeInv, TreeTypeOK, Kept

\* What the invariant says of a command in flight.
LEMMA CommandFields ==
    ASSUME TreeInv, NEW q \in Hand, command[q] # Nil
    PROVE  command[q] \in Command /\ Complements(command[q])
BY DEF TreeInv, TreeTypeOK, CommandsInv

\* Every step of a command keeps the invariant.
LEMMA CommandKeeps == ASSUME TreeInv, NEW q \in Hand, CommandStep(q) PROVE TreeInv'
<1>1. ASSUME NEW senior \in BOOLEAN, NEW shown \in BOOLEAN, CheckNewPart(q, senior, shown)
      PROVE  TreeInv'
  <2> DEFINE c == [Bare("addPart", senior) EXCEPT !.shown = shown]
  <2>1. c \in Command /\ Complements(c)
    BY DEF Bare, Command, Commands, Complements
  <2> QED
    BY <1>1, <2>1, CheckKeeps DEF CheckNewPart
<1>2. ASSUME NEW senior \in BOOLEAN, NEW shown \in BOOLEAN \cup {Nil}, NEW i \in Part,
             CheckPart(q, senior, i, shown)
      PROVE  TreeInv'
  <2> DEFINE c == [Bare("editPart", senior) EXCEPT !.part = i, !.shown = shown]
             h == [Bare("hidePart", senior) EXCEPT !.part = i]
  <2>1. c \in Command /\ Complements(c)
    BY DEF Bare, Command, Commands, Complements
  <2>2. h \in Command /\ Complements(h)
    BY DEF Bare, Command, Commands, Complements
  <2>3. Check(q, c) \/ Check(q, h)
    BY <1>2 DEF CheckPart
  <2> HIDE DEF c, h
  <2> QED
    BY <2>1, <2>2, <2>3, CheckKeeps
<1>3. ASSUME NEW senior \in BOOLEAN, NEW to \in Part \cup {Nil}, CheckNewImage(q, senior, to)
      PROVE  TreeInv'
  <2> DEFINE c == [Bare("addImage", senior) EXCEPT !.to = to]
  <2>1. c \in Command /\ Complements(c)
    BY DEF Bare, Command, Commands, Complements
  <2> QED
    BY <1>3, <2>1, CheckKeeps DEF CheckNewImage
<1>4. ASSUME NEW senior \in BOOLEAN, NEW to \in Part \cup {Nil}, NEW g \in Image,
             CheckImage(q, senior, g, to)
      PROVE  TreeInv'
  <2> DEFINE c == [Bare("editImage", senior) EXCEPT !.image = g, !.moves = TRUE, !.to = to]
  <2>1. CASE Check(q, c)
    <3>1. c \in Command /\ Complements(c)
      BY DEF Bare, Command, Commands, Complements
    <3> QED
      BY <2>1, <3>1, CheckKeeps
  <2>2. ASSUME NEW op \in {"editImage", "hideImage"},
               Check(q, [Bare(op, senior) EXCEPT !.image = g])
        PROVE  TreeInv'
    <3> DEFINE d == [Bare(op, senior) EXCEPT !.image = g]
    <3>1. d \in Command /\ Complements(d)
      BY DEF Bare, Command, Commands, Complements
    <3> QED
      BY <2>2, <3>1, CheckKeeps
  <2> QED
    BY <1>4, <2>1, <2>2 DEF CheckImage
<1>10. ASSUME NEW senior \in BOOLEAN, NEW gallery \in SUBSET Image, CheckSort(q, senior, gallery)
       PROVE  TreeInv'
  <2> DEFINE c == [Bare("sortImages", senior) EXCEPT !.gallery = gallery]
  <2>1. c \in Command /\ Complements(c)
    BY DEF Bare, Command, Commands, Complements
  <2> QED
    BY <1>10, <2>1, CheckKeeps DEF CheckSort
<1>5. ASSUME NEW i \in Part, AddPart(q, i) PROVE TreeInv'
  <2>1. command[q] \in Command /\ command[q].shown \in BOOLEAN
    BY <1>5, CommandFields DEF AddPart, Working, Complements
  <2>2. part[i] \in PartRow
    BY DEF TreeInv, TreeTypeOK
  <2> DEFINE row == [part[i] EXCEPT !.life = "live", !.shown = command[q].shown]
  <2>3. row \in PartRow /\ row.life = "live"
    BY <2>1, <2>2 DEF PartRow, Life
  <2> QED
    BY <1>5, <2>3, WritePartKeeps DEF AddPart
<1>6. ASSUME EditPart(q) \/ HidePart(q) PROVE TreeInv'
  <2> DEFINE i == command[q].part
  <2>1. command[q] \in Command /\ i \in Part
    BY <1>6, CommandFields DEF EditPart, HidePart, Working, Complements
  <2>2. part[i] \in PartRow /\ command[q].shown \in BOOLEAN \cup {Nil}
    BY <2>1 DEF TreeInv, TreeTypeOK, Command
  <2>3. PICK row \in PartRow : row.life = part[i].life /\ WritePart(q, i, row)
    <3>1. CASE EditPart(q)
      <4> DEFINE row == [part[i] EXCEPT
                           !.shown = IF command[q].shown = Nil THEN @ ELSE command[q].shown,
                           !.text = 1 - @]
      <4>0. /\ (IF command[q].shown = Nil THEN part[i].shown ELSE command[q].shown) \in BOOLEAN
            /\ 1 - part[i].text \in {0, 1}
        BY <2>2 DEF PartRow
      <4>1. row \in PartRow /\ row.life = part[i].life
        BY <2>2, <4>0 DEF PartRow
      <4>2. WritePart(q, i, row)
        BY <3>1 DEF EditPart
      <4> QED
        BY <4>1, <4>2
    <3>2. CASE HidePart(q)
      <4> DEFINE row == [part[i] EXCEPT !.shown = FALSE]
      <4>1. row \in PartRow /\ row.life = part[i].life
        BY <2>2 DEF PartRow
      <4>2. WritePart(q, i, row)
        BY <3>2 DEF HidePart
      <4> QED
        BY <4>1, <4>2
    <3> QED
      BY <1>6, <3>1, <3>2
  <2> QED
    BY <2>1, <2>3, WritePartKeeps
<1>7. ASSUME NEW g \in Image, AddImage(q, g) PROVE TreeInv'
  <2>1. command[q] \in Command
    BY <1>7, CommandFields DEF AddImage, Working
  <2>2. image[g] \in ImageRow /\ command[q].to \in Part \cup {Nil}
    BY <2>1 DEF TreeInv, TreeTypeOK, Command
  <2> DEFINE row == [image[g] EXCEPT !.life = "live", !.part = command[q].to]
  <2>3. row \in ImageRow /\ row.part = command[q].to
    BY <2>2 DEF ImageRow, Life
  <2>4. WriteImage(q, g, row) /\ Refers(command[q].to)
    BY <1>7 DEF AddImage
  <2> QED
    BY <2>3, <2>4, WriteImageKeeps DEF Refers
<1>8. ASSUME EditImage(q) \/ HideImage(q) PROVE TreeInv'
  <2> DEFINE g == command[q].image
  <2>1. command[q] \in Command /\ g \in Image
    BY <1>8, CommandFields DEF EditImage, HideImage, Working, Complements
  <2>2. image[g] \in ImageRow /\ command[q].to \in Part \cup {Nil}
    BY <2>1 DEF TreeInv, TreeTypeOK, Command
  <2>3. image[g].part # Nil => Kept(part[image[g].part])
    BY <1>8, <2>1 DEF EditImage, HideImage, Kept, TreeInv, TreeTypeOK
  <2>4. PICK row \in ImageRow : (row.part # Nil => Kept(part[row.part])) /\ WriteImage(q, g, row)
    <3>1. CASE EditImage(q)
      <4> DEFINE row == [image[g] EXCEPT
                           !.part = IF command[q].moves THEN command[q].to ELSE @,
                           !.text = 1 - @]
      <4>0. 1 - image[g].text \in {0, 1}
        BY <2>2 DEF ImageRow
      <4>1. row \in ImageRow /\ row.part \in {image[g].part, command[q].to}
        BY <2>2, <4>0 DEF ImageRow
      <4>2. WriteImage(q, g, row) /\ Refers(command[q].to)
        BY <3>1 DEF EditImage
      <4> QED
        BY <2>3, <4>1, <4>2 DEF Refers
    <3>2. CASE HideImage(q)
      <4> DEFINE row == [image[g] EXCEPT !.shown = FALSE]
      <4>1. row \in ImageRow /\ row.part = image[g].part
        BY <2>2 DEF ImageRow
      <4>2. WriteImage(q, g, row)
        BY <3>2 DEF HideImage
      <4> QED
        BY <2>3, <4>1, <4>2
    <3> QED
      BY <1>8, <3>1, <3>2
  <2> QED
    BY <2>1, <2>4, WriteImageKeeps
<1>9. ASSUME Leave(q) PROVE TreeInv'
  BY <1>9, CompleteKeeps DEF Leave, TreeInv, TreeTypeOK
<1>11. ASSUME SortImages(q) PROVE TreeInv'
  <2>1. CommandsInv' /\ command' \in [Hand -> Command \cup {Nil}]
    BY <1>11, CompleteKeeps DEF SortImages
  <2>2. \A g \in Image : /\ image'[g] \in ImageRow
                         /\ image'[g].life = image[g].life /\ image'[g].part = image[g].part
    <3> SUFFICES ASSUME NEW g \in Image
                 PROVE  /\ image'[g] \in ImageRow
                        /\ image'[g].life = image[g].life /\ image'[g].part = image[g].part
      OBVIOUS
    <3>1. image[g] \in ImageRow /\ 1 - image[g].text \in {0, 1}
      BY DEF TreeInv, TreeTypeOK, ImageRow
    <3>2. image'[g] \in {image[g], [image[g] EXCEPT !.text = 1 - @]}
      BY <1>11 DEF SortImages
    <3> QED
      BY <3>1, <3>2 DEF ImageRow
  <2>3. image' \in [Image -> ImageRow]
    BY <1>11, <2>2 DEF SortImages
  <2> QED
    BY <1>11, <2>1, <2>2, <2>3 DEF SortImages, TreeInv, TreeTypeOK
<1> QED
  BY <1>1, <1>2, <1>3, <1>4, <1>5, <1>6, <1>7, <1>8, <1>9, <1>10, <1>11 DEF CommandStep

\* A project that changes its stage overtakes every command.
LEMMA StageKeeps ==
    ASSUME TreeInv, project' \in Project, UNCHANGED <<part, image>>,
           command' = [q \in Hand |-> IF command[q] = Nil THEN Nil
                                      ELSE [command[q] EXCEPT !.overtaken = TRUE]]
    PROVE  TreeInv'
<1>1. ASSUME NEW q \in Hand, command'[q] # Nil
      PROVE  command'[q] \in Command /\ command'[q].overtaken /\ Complements(command'[q])
  <2>1. command[q] \in Command /\ Complements(command[q])
    BY <1>1, CommandFields
  <2>2. command'[q] = [command[q] EXCEPT !.overtaken = TRUE]
    BY <1>1
  <2> QED
    BY <2>1, <2>2 DEF Command, Complements
<1>2. TreeTypeOK'
  BY <1>1 DEF TreeInv, TreeTypeOK
<1>3. CommandsInv'
  BY <1>1 DEF CommandsInv, Complements
<1> QED
  BY <1>2, <1>3 DEF TreeInv

\* Every step on the project or by the trash keeps the invariant.
LEMMA TrashKeeps ==
    ASSUME TreeInv,
           \/ ProjectStep
           \/ \E i \in Part : PartStep(i)
           \/ \E g \in Image : ImageStep(g)
    PROVE  TreeInv'
<1> USE DEF TreeInv, TreeTypeOK
<1>1. ASSUME NEW stage \in {"open", "sealed", "public"}, SetStage(stage) PROVE TreeInv'
  BY <1>1, StageKeeps DEF SetStage, Project
<1>2. CASE TrashProject
  BY <1>2, StageKeeps DEF TrashProject, Project
<1>3. CASE RestoreProject
  BY <1>3 DEF RestoreProject, Project, CommandsInv, Complements
<1>4. CASE PurgeProject
  <2>1. \A i \in Part : part'[i] = IF Kept(part[i]) THEN [part[i] EXCEPT !.life = "purged"]
                                   ELSE part[i]
    BY <1>4 DEF PurgeProject
  <2>2. \A g \in Image : image'[g] = IF Kept(image[g]) THEN [image[g] EXCEPT !.life = "purged"]
                                     ELSE image[g]
    BY <1>4 DEF PurgeProject
  <2>3. project' \in Project /\ project'.stage = project.stage /\ UNCHANGED command
    BY <1>4 DEF PurgeProject, Project
  <2>4. part' \in [Part -> PartRow]
    BY <1>4, <2>1 DEF PurgeProject, PartRow, Life
  <2>5. image' \in [Image -> ImageRow]
    BY <1>4, <2>2 DEF PurgeProject, ImageRow, Life
  <2>6. \A g \in Image : image'[g].life \notin {"live", "trashed"}
    BY <2>2 DEF Kept, ImageRow
  <2> QED
    BY <2>3, <2>4, <2>5, <2>6 DEF CommandsInv, Complements
<1>5. ASSUME NEW i \in Part, TrashPart(i) \/ RestorePart(i) PROVE TreeInv'
  <2>1. PICK life \in {"live", "trashed"} :
           part' = [part EXCEPT ![i].life = life] /\ UNCHANGED <<project, image, command>>
    BY <1>5 DEF TrashPart, RestorePart
  <2>2. part' \in [Part -> PartRow]
    BY <2>1 DEF PartRow, Life
  <2>3. \A j \in Part : part'[j].life = IF j = i THEN life ELSE part[j].life
    BY <2>1 DEF PartRow
  <2> QED
    BY <2>1, <2>2, <2>3 DEF CommandsInv, Complements, ImageRow
<1>6. ASSUME NEW i \in Part, PurgePart(i) PROVE TreeInv'
  <2>1. part' = [part EXCEPT ![i].life = "purged"] /\ UNCHANGED <<project, command>>
    BY <1>6 DEF PurgePart
  <2>2. \A g \in Image : image'[g] = IF image[g].part = i THEN [image[g] EXCEPT !.part = Nil]
                                     ELSE image[g]
    BY <1>6 DEF PurgePart
  <2>3. part' \in [Part -> PartRow]
    BY <2>1 DEF PartRow, Life
  <2>4. image' \in [Image -> ImageRow]
    BY <1>6, <2>2 DEF PurgePart, ImageRow
  <2>5. \A j \in Part \ {i} : part'[j] = part[j]
    BY <2>1
  <2>6. \A g \in Image : image'[g].part # i /\ image'[g].life = image[g].life
                         /\ (image'[g].part # Nil => image'[g].part = image[g].part)
    BY <2>2, TreeAssumption DEF ImageRow
  <2> QED
    BY <2>1, <2>3, <2>4, <2>5, <2>6 DEF CommandsInv, Complements, ImageRow
<1>7. ASSUME NEW g \in Image, ImageStep(g) PROVE TreeInv'
  <2>1. PICK life \in {"live", "trashed", "purged"} :
           /\ image' = [image EXCEPT ![g].life = life] /\ UNCHANGED <<project, part, command>>
           /\ Kept(image[g])
    BY <1>7 DEF ImageStep, TrashImage, RestoreImage, PurgeImage, Kept
  <2>2. image' \in [Image -> ImageRow]
    BY <2>1 DEF ImageRow, Life
  <2>3. \A h \in Image : /\ image'[h].part = image[h].part
                         /\ h # g => image'[h].life = image[h].life
    BY <2>1 DEF ImageRow
  <2> QED
    BY <2>1, <2>2, <2>3 DEF CommandsInv, Complements, Kept
<1> QED
  BY <1>1, <1>2, <1>3, <1>4, <1>5, <1>6, <1>7 DEF ProjectStep, PartStep

\* The invariant holds.  (ProjectsService: items and gallery)
THEOREM TreeInvariant == TreeSpec => []TreeInv
<1>1. TreeInit => TreeInv
  BY DEF TreeInit, TreeInv, TreeTypeOK, CommandsInv, Project, PartRow, ImageRow, Life
<1>2. TreeInv /\ [TreeNext]_treeVars => TreeInv'
  <2> SUFFICES ASSUME TreeInv, [TreeNext]_treeVars PROVE TreeInv'
    OBVIOUS
  <2>1. CASE UNCHANGED treeVars
    BY <2>1 DEF treeVars, TreeInv, TreeTypeOK, CommandsInv, Complements
  <2>2. ASSUME NEW q \in Hand, CommandStep(q) PROVE TreeInv'
    BY <2>2, CommandKeeps
  <2> QED
    BY <2>1, <2>2, TrashKeeps DEF TreeNext
<1> QED
  BY <1>1, <1>2, PTL DEF TreeSpec

\* What visitors see of a public project is changed by administrators and the
\* trash only.  (assertChildEditAllowed in every child command)
THEOREM EditorsSparePublicAlways == TreeSpec => EditorsSparePublic
<1> DEFINE Spared == OnSite /\ OnSite' /\ PublicView' # PublicView => Entitled \/ ByTrash
<1>1. TreeInv /\ [TreeNext]_treeVars => [Spared]_treeVars
  <2> SUFFICES ASSUME TreeInv, TreeNext, OnSite, OnSite', PublicView' # PublicView
               PROVE  Entitled \/ ByTrash
    OBVIOUS
  <2> USE DEF TreeInv, TreeTypeOK
  <2>1. ~ UNCHANGED <<part, image>>
    BY DEF PublicView, PublicParts, PublicImages, InGallery
  <2>2. CASE ProjectStep
    BY <2>1, <2>2 DEF ProjectStep, SetStage, TrashProject, RestoreProject, PurgeProject, OnSite,
       Project
  <2>3. ASSUME NEW i \in Part, PartStep(i) PROVE ByTrash
    <3>1. PICK life \in Life : part' = [part EXCEPT ![i].life = life] /\ life # part[i].life
                               /\ part[i].life # "none"
      BY <2>3 DEF PartStep, TrashPart, RestorePart, PurgePart, Life, Kept
    <3>2. part'[i].life = life
      BY <3>1 DEF PartRow
    <3> QED
      BY <3>1, <3>2 DEF ByTrash
  <2>4. ASSUME NEW g \in Image, ImageStep(g) PROVE ByTrash
    <3>1. PICK life \in Life : image' = [image EXCEPT ![g].life = life] /\ life # image[g].life
                               /\ image[g].life # "none"
      BY <2>4 DEF ImageStep, TrashImage, RestoreImage, PurgeImage, Life, Kept
    <3>2. image'[g].life = life
      BY <3>1 DEF ImageRow
    <3> QED
      BY <3>1, <3>2 DEF ByTrash
  <2>5. ASSUME NEW q \in Hand, CommandStep(q) PROVE Entitled
    <3>1. command[q] # Nil /\ Complete(q)
      BY <2>1, <2>5 DEF CommandStep, CheckNewPart, CheckPart, CheckNewImage, CheckImage, CheckSort,
         Check, AddPart, AddImage, EditPart, HidePart, EditImage, HideImage, SortImages, Leave,
         WritePart, WriteImage, Working
    <3>2. command'[q] = Nil
      BY <3>1 DEF Complete
    <3>3. command[q].senior \/ command[q].overtaken
      BY <3>1 DEF CommandsInv, OnSite
    <3> QED
      BY <3>1, <3>2, <3>3 DEF Entitled
  <2> QED
    BY <2>2, <2>3, <2>4, <2>5 DEF TreeNext
<1> QED
  BY <1>1, TreeInvariant, PTL DEF TreeSpec, EditorsSparePublic

-----------------------------------------------------------------------------
(* Both                                                                  *)

\* The order and the rows under a project share no column: what one of them does
\* is nothing to the other, so that a theorem about either holds of both.
\* (reorderContent; updateItem)
THEOREM CollectionsAreBoth == CollectionsSpec => OrderSpec /\ TreeSpec
<1>1. CollectionsInit => OrderInit /\ TreeInit
  BY DEF CollectionsInit
<1>2. [CollectionsNext]_collectionsVars => [OrderNext]_orderVars /\ [TreeNext]_treeVars
  BY DEF CollectionsNext, collectionsVars
<1> QED
  BY <1>1, <1>2, PTL DEF CollectionsSpec, OrderSpec, TreeSpec

\* Every variable keeps its type; row locks and foreign keys included.
\* (reorderContent, addGalleryImage, updateItem)
THEOREM CollectionsTyped == CollectionsSpec => []CollectionsTypeOK
<1>1. OrderInv /\ TreeInv => CollectionsTypeOK
  BY DEF OrderInv, TreeInv, CollectionsTypeOK
<1> QED
  BY <1>1, CollectionsAreBoth, OrderInvariant, TreeInvariant, PTL
=============================================================================
