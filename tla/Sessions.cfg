CONSTANTS
    u1 = u1
    u2 = u2
    f1 = f1
    f2 = f2
    f3 = f3
    r1 = r1
    r2 = r2
    r3 = r3
    None = None
    Users <- TwoUsers
    Families <- ThreeFamilies
    Requests <- TwoRequests
    MaxAttempts = 1
    Window = 2
    RefreshTtl = 2
    MaxTime = 3
    Budgets <- AllBudgets
SPECIFICATION Spec
SYMMETRY Symmetry
INVARIANT RotationSafe
INVARIANT OldSessionsEnd
INVARIANT Overshoot
PROPERTY EndedForCause
