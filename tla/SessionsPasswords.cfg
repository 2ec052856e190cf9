SPECIFICATION Spec
CONSTANTS
    Idle = Idle
    Keep = Keep
    Token = {}
    Link = {l1, l2}
    Email = {e1, e2}
    Slot = {q1, q2}
    Routes = {"forgot", "reset", "change", "address"}
    MaxWrong = 1
    MaxChanges = 2
    MaxCodes = 2
SYMMETRY Symmetry
INVARIANT
    TypeOK
PROPERTY
    EveryChangeIsPaidFor
