CONSTANTS
    r1 = r1
    r2 = r2
    t1 = t1
    t2 = t2
    Requests = {r1, r2}
    Tenants = {t1, t2}
    Ids = {1}
    NoTenant = NoTenant
    Init0 = Init0
    NoRow = NoRow
    HookCount = 2
    Untouched = Untouched
    NoEvent = NoEvent
    NoChange = NoChange
    Isolations <- MCAll
    SoftDelete = TRUE
    IgnoreMissing = TRUE
SPECIFICATION Spec
INVARIANTS
    TypeOK
    EventTellsTheTruth
    PriorIsReplaced
    HookWritesShareFate
    EveryHookIsTold
PROPERTIES
    ScopesHoldAtTheWrite
    OnlyRestoreRevives
    KeepsContract
SYMMETRY MCSymmetry
