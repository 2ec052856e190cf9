SPECIFICATION CollectionsSpec
CONSTANTS
    Free = Free
    Item = {r1, r2}
    Sorter = {q1, q2}
    Collections = {"content", "listed", "gallery"}
    Given = {2}
    OrderBound = 2
    Nil = Nil
    Part = {i1}
    Image = {g1}
    Hand = {q1, q2}
SYMMETRY Symmetry
CHECK_DEADLOCK FALSE
INVARIANTS
    CollectionsTypeOK
    OrderIsOneList
    NobodyLeftOut
PROPERTIES
    NewComesLast
    EditorsSparePublic
