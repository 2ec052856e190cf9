SPECIFICATION Spec
CONSTANTS
    Idle = Idle
    Keep = Keep
    Account = {a1, a2}
    Slot = {q1, q2}
    Changes <- OneChange
    Routes = {"update", "invite"}
SYMMETRY Symmetry
CHECK_DEADLOCK FALSE
INVARIANT SuperAdminRemains
