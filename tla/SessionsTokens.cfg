SPECIFICATION Spec
CONSTANTS
    Idle = Idle
    Keep = Keep
    Token = {t1}
    Link = {}
    Email = {e1}
    Slot = {q1}
    Routes = {"login", "change"}
    MaxWrong = 1
    MaxChanges = 1
    MaxCodes = 1
CHECK_DEADLOCK FALSE
PROPERTY AccessTokensOutliveChange
