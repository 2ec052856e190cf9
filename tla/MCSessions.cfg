SPECIFICATION Spec
CONSTANTS
    Idle = Idle
    Keep = Keep
    Token = {t1, t2, t3}
    Link = {l1}
    Email = {e1}
    Slot = {q1, q2}
    Routes = {"login", "refresh", "logout", "forgot", "reset", "lock", "role", "trash"}
    MaxWrong = 1
    MaxChanges = 1
    MaxCodes = 0
SYMMETRY Symmetry
CHECK_DEADLOCK FALSE
INVARIANTS
    NothingOutlivesPassword
    AccessTokenFresh
    LockedHoldsNoSession
