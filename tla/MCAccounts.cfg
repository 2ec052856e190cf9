SPECIFICATION AccountsSpec
CONSTANTS
    Idle = Idle
    Keep = Keep
    Account = {a1, a2}
    Slot = {q1, q2}
    Changes <- OneChange
    Routes = {"update", "remove", "permit", "invite", "trash", "restore", "purge"}
    NoCall = NoCall
    NoInvite = NoInvite
    Invite = {i1, i2, i3}
    Caller = {q1, q2, q3}
    MaxFailed = 2
    MaxGuesses = 3
SYMMETRY AccountsSymmetry
CONSTRAINT FewGuesses
CHECK_DEADLOCK FALSE
INVARIANTS
    TypeOK
    LastSuperAdminKept
    SomebodyAdministers
    OnboardingTypeOK
    SetUpOnce
    GuessesCounted
PROPERTIES
    MembersSpareSuperAdmins
    LockStands
