--------------------------- MODULE MCCollections ----------------------------
(***************************************************************************)
(* Model-checking instance of the order of a collection and of the rows    *)
(* under a project.  They share no column, so that a behaviour of this     *)
(* instance is a behaviour of one of the two, chosen at the start.         *)
(***************************************************************************)
EXTENDS ContentOrder, ProjectTree, TLC

VARIABLE subject  \* which of the two runs

collectionsVars == <<subject, orderVars, treeVars>>

CollectionsInit ==
    /\ subject \in {"order", "tree"}
    /\ OrderInit /\ TreeInit
    \* what the other one starts with
    /\ subject = "tree" => collection = "gallery"

CollectionsNext ==
    \/ subject = "order" /\ OrderNext /\ UNCHANGED <<subject, treeVars>>
    \/ subject = "tree" /\ TreeNext /\ UNCHANGED <<subject, orderVars>>

CollectionsSpec == CollectionsInit /\ [][CollectionsNext]_collectionsVars

\* The sets of requests are equal in this instance.
Symmetry == Permutations(Item) \cup Permutations(Sorter)

-----------------------------------------------------------------------------
\* Every variable keeps its type; row locks and foreign keys included.
\* (reorderContent, addGalleryImage, updateItem)
CollectionsTypeOK == OrderTypeOK /\ TreeTypeOK
=============================================================================
