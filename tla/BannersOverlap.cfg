SPECIFICATION BannersSpec
CONSTANTS
    Unbounded = Unbounded
    Absent = Absent
    Slide = {s1}
    Patcher = {w1, w2}
    Instants = {1, 2}
CHECK_DEADLOCK FALSE
PROPERTY WriteBackIsHarmless
