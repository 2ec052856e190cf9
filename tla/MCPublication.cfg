SPECIFICATION Spec
CONSTANTS
    Null = Null
    Keep = Keep
    Idle = Idle
    MinLead = 1
    MaxHorizon = 2
    Row = {r1}
    Slot = {q1, q2}
    Server = {s1}
    MaxTime = 2
    RescheduleDrafts = FALSE
SYMMETRY Symmetry
INVARIANTS
    TypeOK
    PublicOnlyIfGranted
    MarkMatchesState
    FirstMarkKept
    ApprovedContentOnly
PROPERTIES
    EditorLeavesSiteAlone
    ReconcilerUnseen
    ImplementsSite
