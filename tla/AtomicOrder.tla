----------------------------- MODULE AtomicOrder -----------------------------
(***************************************************************************)
(* What a collection promises to its readers, with no transaction and no   *)
(* row lock: rows come, go and move one at a time, and a list that staff   *)
(* send puts all its rows in place at once.                                *)
(***************************************************************************)
EXTENDS Naturals

CONSTANTS
    Item,
    Lists,     \* the lists that may be sent
    Orders     \* order numbers

VARIABLE shelf \* the rows as readers see them

ShelfInit == shelf = [r \in Item |-> [life |-> "none", order |-> 0]]

There(r) == shelf[r].life \in {"live", "trashed"}

\* The last place of r counts.
LastPlaceIn(list, r) ==
    CHOOSE i \in DOMAIN list : list[i] = r /\ \A j \in DOMAIN list : list[j] = r => j <= i

\* Somebody arranges rows that are all still there; the others keep their numbers.
Arrange(list) ==
    LET named == {list[i] : i \in DOMAIN list}
    IN  /\ \A r \in named : There(r)
        /\ shelf' = [r \in Item |-> IF r \in named
                                    THEN [shelf[r] EXCEPT !.order = LastPlaceIn(list, r) - 1]
                                    ELSE shelf[r]]

Appear(r, order) ==
    /\ shelf[r].life = "none"
    /\ shelf' = [shelf EXCEPT ![r] = [life |-> "live", order |-> order]]

Renumber(r, order) ==
    /\ There(r)
    /\ shelf' = [shelf EXCEPT ![r].order = order]

\* A row that leaves, or comes back, keeps its number.
Move(r, life) ==
    /\ There(r)
    /\ shelf' = [shelf EXCEPT ![r].life = life]

ShelfNext ==
    \/ \E list \in Lists : Arrange(list)
    \/ \E r \in Item :
         \/ \E order \in Orders : Appear(r, order) \/ Renumber(r, order)
         \/ \E life \in {"live", "trashed", "purged"} : Move(r, life)

ShelfSpec == ShelfInit /\ [][ShelfNext]_shelf
=============================================================================
