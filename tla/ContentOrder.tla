---------------------------- MODULE ContentOrder ----------------------------
(***************************************************************************)
(* The order of one collection of the CMS, which staff rearrange by        *)
(* sending the whole list: projects, their items, posts and positions      *)
(* ("content"), banners and cooperation projects ("listed"), the images of *)
(* a project ("gallery").                                                  *)
(*                                                                         *)
(* Every reorder checks the list against the live rows and then updates    *)
(* them one by one in a transaction, whose row locks it keeps until it     *)
(* commits.  reorderContent() checks inside that transaction, which is     *)
(* SERIALIZABLE and aborts at a row that changed since; the others check   *)
(* before it, in one statement or two, and theirs is READ COMMITTED.  An   *)
(* insertion is invisible to either.  Who may reorder is not the subject.  *)
(***************************************************************************)
EXTENDS Naturals, Sequences, FiniteSets, FiniteSetsExt

CONSTANTS
    Item,        \* rows that can be created
    Sorter,      \* requests that can be in flight at the same time
    Free,        \* no request
    Collections, \* the kinds of collection of this instance
    Given,       \* the order numbers that authors write
    OrderBound   \* bound on the order numbers of new rows

Orders == 0..OrderBound
Lists  == UNION {[1..n -> Item] : n \in 1..Cardinality(Item)}

Entry == [life : {"none", "live", "trashed", "purged"}, order : Orders]

\* "count": the length of the list was right; "write": `next` is the place in
\* the list of the next UPDATE, `saved` the orders of the rows it has updated as
\* others still see them; "insert": `next` is the order of the new row.
\* `outrun`: the database will abort it.  `missed` and `outdated` are history:
\* the rows that came to life since a list was checked, or counted, and whether a
\* row was written since the number of a new one was read.
Work == [op : {"count", "write", "insert"}, list : Lists \cup {<<>>},
         next : Nat, saved : UNION {[rows -> Orders] : rows \in SUBSET Item},
         outrun : BOOLEAN, missed : SUBSET Item, outdated : BOOLEAN]

ASSUME OrderAssumption ==
    /\ Collections \subseteq {"content", "listed", "gallery"}
    /\ Free \notin Work
    /\ Free \notin Sorter
    /\ IsFiniteSet(Item)
    /\ OrderBound \in Nat
    /\ Given \subseteq Orders
    /\ Cardinality(Item) <= OrderBound + 1

VARIABLES
    collection, \* which kind this one is
    item,       \* the rows
    work        \* the requests in flight

(* History variables: they record what happened and guard nothing.         *)
VARIABLES
    listed,     \* the list that was last committed
    edited,     \* rows whose order was set one at a time since then
    newcomers   \* rows that came to life after that list was checked, or counted

orderHistory == <<listed, edited, newcomers>>
orderVars    == <<collection, item, work, orderHistory>>

OrderTypeOK ==
    /\ collection \in Collections
    /\ item \in [Item -> Entry]
    /\ work \in [Sorter -> Work \cup {Free}]
    /\ \A q, p \in Sorter : q # p /\ work[q] # Free /\ work[p] # Free =>
           DOMAIN work[q].saved \cap DOMAIN work[p].saved = {}
    /\ listed \in Lists \cup {<<>>}
    /\ edited \subseteq Item
    /\ newcomers \subseteq Item

OrderInit ==
    /\ collection \in Collections
    /\ item = [r \in Item |-> [life |-> "none", order |-> 0]]
    /\ work = [q \in Sorter |-> Free]
    /\ listed = <<>>
    /\ edited = {}
    /\ newcomers = {}

-----------------------------------------------------------------------------
(* Shared steps                                                            *)

Members       == {r \in Item : item[r].life = "live"}
Stored(r)     == item[r].life \in {"live", "trashed"}
Named(list)   == {list[i] : i \in DOMAIN list}
Repeats(list) == Cardinality(Named(list)) # Len(list)
Busy(q, op)   == work[q] # Free /\ work[q].op = op

\* A mistaken store without row locks.
NoLocks(q, r) == FALSE

LockedByOther(q, r) ==
    \E p \in Sorter \ {q} : Busy(p, "write") /\ r \in DOMAIN work[p].saved

Unlocked(r) == ~LockedByOther(Free, r)

\* What others see of an order that a transaction is changing.
Committed(r) ==
    IF Unlocked(r) THEN item[r].order
    ELSE work[CHOOSE q \in Sorter : Busy(q, "write") /\ r \in DOMAIN work[q].saved].saved[r]

\* The requests in flight once the rows of `written` have been written, of
\* which those of `born` have come to life.  Slot q is done.
Proceed(q, written, born) ==
    work' = [p \in Sorter |->
        IF p = q \/ work[p] = Free THEN Free
        ELSE [work[p] EXCEPT
                !.missed   = IF work[p].op = "insert" THEN @ ELSE @ \cup born,
                !.outdated = work[p].op = "insert",
                !.outrun   = @ \/ /\ collection = "content" /\ work[p].op = "write"
                                  /\ written \cap Named(work[p].list) # {}]]

-----------------------------------------------------------------------------
(* Reordering                                                              *)

Enter(q, c) ==
    /\ work[q] = Free
    /\ work' = [work EXCEPT ![q] = c]
    /\ UNCHANGED <<collection, item, orderHistory>>

Start(op, list) == [op |-> op, list |-> list, next |-> 1, saved |-> <<>>,
                    outrun |-> FALSE, missed |-> {}, outdated |-> FALSE]

\* A mistaken check that does not notice missing rows.
PartOf(list) == Named(list) \subseteq Members

\* reorderContent(): the check, in the snapshot of the transaction.
IsWhole(list) == ~Repeats(list) /\ Named(list) = Members

CheckContent(q, list) ==
    /\ collection = "content"
    /\ IsWhole(list)
    /\ Enter(q, Start("write", list))

\* Banners and cooperation projects: a count, and then a search for the ids.
CountListed(q, list) ==
    /\ collection = "listed"
    /\ ~Repeats(list)
    /\ \A r \in Named(list) : item[r].life # "none"
    /\ Len(list) = Cardinality(Members)
    /\ Enter(q, Start("count", list))

\* What was counted need not be what is found: rows come and go in between.
FindListed(q) ==
    /\ Busy(q, "count")
    /\ Named(work[q].list) \subseteq Members
    /\ work' = [work EXCEPT ![q].op = "write"]
    /\ UNCHANGED <<collection, item, orderHistory>>

\* reorderGallery() compares the length, and does not look for repetitions.
CheckGallery(q, list) ==
    /\ collection = "gallery"
    /\ Named(list) \subseteq Members
    /\ Len(list) = Cardinality(Members)
    /\ Enter(q, Start("write", list))

\* One UPDATE: it waits for a lock, and fails if the row is gone or, in a
\* SERIALIZABLE transaction, has changed.
WriteNext(q) ==
    LET c == work[q]
        r == c.list[c.next]
    IN  /\ Busy(q, "write")
        /\ c.next <= Len(c.list)
        /\ ~c.outrun
        /\ Stored(r)
        /\ ~LockedByOther(q, r)
        /\ item' = [item EXCEPT ![r].order = c.next - 1]
        /\ work' = [work EXCEPT ![q].next = @ + 1,
                                ![q].saved = [s \in DOMAIN @ \cup {r} |->
                                                 IF s \in DOMAIN @ THEN @[s] ELSE item[s].order]]
        /\ UNCHANGED <<collection, orderHistory>>

\* The place of a row: the last one, if the list repeats it.
Place(list, r) == CHOOSE i \in DOMAIN list :
                      list[i] = r /\ \A j \in DOMAIN list : list[j] = r => j <= i

CommitReorder(q) ==
    LET c == work[q]
    IN  /\ Busy(q, "write")
        /\ c.next = Len(c.list) + 1
        /\ Proceed(q, Named(c.list), {})
        /\ listed' = c.list
        /\ edited' = {}
        /\ newcomers' = c.missed
        /\ UNCHANGED <<collection, item>>

-----------------------------------------------------------------------------
(* Rows come, go and move                                                  *)

\* Slot q, or a request that is a single statement, writes the row r.
WriteItem(q, r, entry) ==
    LET born == IF entry.life = "live" /\ item[r].life # "live" THEN {r} ELSE {}
    IN  /\ item' = [item EXCEPT ![r] = entry]
        /\ Proceed(q, {r}, born)
        /\ newcomers' = IF listed = <<>> THEN {} ELSE newcomers \cup (born \ Named(listed))
        /\ UNCHANGED <<collection, listed>>

\* A new row has the order 0, or the one its author gave it.
Insert(r, order) ==
    /\ item[r].life = "none"
    /\ WriteItem(Free, r, [life |-> "live", order |-> order])
    /\ UNCHANGED edited

\* A mistaken next number that counts the rows.
NextByCount == Cardinality(Members)

\* nextGalleryOrder()
NextOrder == IF Members = {} THEN 0 ELSE 1 + Max({Committed(r) : r \in Members})

\* addGalleryImage() without an order.
ReadLastOrder(q) ==
    /\ collection = "gallery"
    /\ Enter(q, [Start("insert", <<>>) EXCEPT !.next = NextOrder])

InsertLast(q, r) ==
    /\ Busy(q, "insert")
    /\ work[q].next <= OrderBound
    /\ item[r].life = "none"
    /\ WriteItem(q, r, [life |-> "live", order |-> work[q].next])
    /\ UNCHANGED edited

EditOrder(r, order) ==
    /\ Stored(r) /\ Unlocked(r)
    /\ WriteItem(Free, r, [item[r] EXCEPT !.order = order])
    /\ edited' = edited \cup ({r} \cap Named(listed))

Remove(r, life) ==
    /\ IF life = "trashed" THEN item[r].life = "live" ELSE Stored(r)
    /\ Unlocked(r)
    /\ WriteItem(Free, r, [item[r] EXCEPT !.life = life])
    /\ UNCHANGED edited

PutBack(r) ==
    /\ item[r].life = "trashed" /\ Unlocked(r)
    /\ WriteItem(Free, r, [item[r] EXCEPT !.life = "live"])
    /\ UNCHANGED edited

\* Refused, failed, chosen to end a deadlock, or the process died.
GiveUp(q) ==
    /\ work[q] # Free
    /\ item' = [r \in Item |-> IF r \in DOMAIN work[q].saved
                              THEN [item[r] EXCEPT !.order = work[q].saved[r]] ELSE item[r]]
    /\ work' = [work EXCEPT ![q] = Free]
    /\ UNCHANGED <<collection, orderHistory>>

-----------------------------------------------------------------------------
SortStep(q) ==
    \/ \E list \in Lists : CheckContent(q, list) \/ CountListed(q, list) \/ CheckGallery(q, list)
    \/ FindListed(q) \/ WriteNext(q) \/ CommitReorder(q) \/ GiveUp(q)

RowStep(r) ==
    \/ \E order \in Given : Insert(r, order) \/ EditOrder(r, order)
    \/ Insert(r, 0)
    \/ \E life \in {"trashed", "purged"} : Remove(r, life)
    \/ PutBack(r)
    \/ \E q \in Sorter : InsertLast(q, r)

OrderNext ==
    \/ \E q \in Sorter : SortStep(q) \/ ReadLastOrder(q)
    \/ \E r \in Item : RowStep(r)

OrderSpec == OrderInit /\ [][OrderNext]_orderVars

-----------------------------------------------------------------------------
(* Safety                                                                  *)

\* The order is the one somebody sent, never a mixture of two lists sent at the
\* same time, apart from rows whose own order was edited since.  (the updates of
\* reorderContent, reorder and reorderGallery in one transaction)
OrderIsOneList ==
    \A r \in Named(listed) \ edited : Committed(r) = Place(listed, r) - 1

\* A list that names no row twice, which only reorderGallery lets pass, leaves out
\* no more rows than came to life since its check: a list that is short of a row
\* never passes by itself.  Where one statement checks it, what it leaves out came
\* to life later itself.  Where the count and the search for the ids are two, a row
\* that comes between them may stand for another.
\* (reorderContent, reorder, reorderGallery: "gửi thiếu sẽ để lại banner mang order cũ")
NobodyLeftOut ==
    listed # <<>> /\ ~Repeats(listed) =>
        /\ Cardinality(Members \ Named(listed)) <= Cardinality(newcomers)
        /\ collection # "listed" => Members \subseteq Named(listed) \cup newcomers

\* What the comment on the reorder of banners says: the list is whole, so that no
\* banner that was there keeps an old number among the new ones.
EveryRowPlaced ==
    listed # <<>> /\ ~Repeats(listed) => Members \subseteq Named(listed) \cup newcomers

\* An image added without an order comes after all others, unless some row was
\* written after its number was read.  (addGalleryImage: nextGalleryOrder)
NewComesLast ==
    [][\A q \in Sorter, r \in Item :
         /\ Busy(q, "insert") /\ work'[q] = Free
         /\ item[r].life = "none" /\ item'[r].life = "live"
         /\ ~work[q].outdated
         => \A s \in Members : Committed(s) < item'[r].order]_orderVars

=============================================================================
