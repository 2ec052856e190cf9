SPECIFICATION OrderSpec
CONSTANTS
    Free = Free
    Item = {r1, r2}
    Sorter = {q1}
    Collections = {"listed"}
    Given = {}
    OrderBound = 1
CHECK_DEADLOCK FALSE
INVARIANT
    EveryRowPlaced
