SPECIFICATION Spec
CONSTANTS
    None = None
    Blank = Blank
    Name = name
    Field = {name}
    Value = {Blank, v1, v2}
    Row = {r1, r2}
    Slot = {q1, q2}
SYMMETRY Symmetry
CHECK_DEADLOCK FALSE
INVARIANTS
    ProfilesTypeOK
    OnePendingRequest
    DecisionsHold
PROPERTY
    SubmissionWaits
