CONSTANTS
    c1 = c1
    c2 = c2
    c3 = c3
    s1 = s1
    s2 = s2
    k = k
    null = null
    Clients = {c1, c2, c3}
    Slots = {s1}
    Nobody = Nobody
    Fields <- MCFields
    Null = null
    Records <- MCOneRecord
    Unique <- MCUnique
    NoRecord = NoRecord
    NoTable = NoTable
    MaxCalls = 4
SPECIFICATION FairSpec
INVARIANTS
    ServedInOrder
PROPERTIES
    WaitersAreServed
