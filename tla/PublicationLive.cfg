SPECIFICATION FairSpec
CONSTANTS
    Null = Null
    Keep = Keep
    Idle = Idle
    MinLead = 1
    MaxHorizon = 2
    Row = {r1}
    Slot = {q1}
    Server = {s1, s2}
    MaxTime = 2
    RescheduleDrafts = TRUE
PROPERTY DueIsSettled
