CONSTANTS
    c1 = c1
    c2 = c2
    c3 = c3
    s1 = s1
    s2 = s2
    k = k
    null = null
    Clients = {c1, c2}
    Slots = {s1, s2}
    Nobody = Nobody
    Fields <- MCFields
    Null = null
    Records <- MCRecords
    Unique <- MCUnique
    NoRecord = NoRecord
    NoTable = NoTable
    MaxCalls = 4
SPECIFICATION Spec
INVARIANTS
    TypeOK
    LockExclusion
    UniqueHolds
    NoLostUpdate
    AcknowledgedIsDecided
PROPERTIES
    OnlyWholeTransactionsLand
    ImplementsSerialStore
SYMMETRY MCSymmetry
