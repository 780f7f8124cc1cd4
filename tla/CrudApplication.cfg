\* Applications that start or fail, and the lists of those that start.
SPECIFICATION Spec
CONSTANTS
    None = None
    Null = Null
    Malformed = Malformed
    NoToken = NoToken
    NotText = NotText
    Empty = Empty
    Bad = Bad
    Gone = Gone
    Absent = Absent
    Start = Start
    MaxSafe = 1000
    MaxWrites = 3
    Keys <- MCKeys
    Resources <- MCResources
    Features <- MCFeatures
    Applications <- MCApplications
    Includes <- MCIncludes
    IncludesInsensitive <- MCIncludesInsensitive
    Records <- MCRecords
    Requests <- MCRequests
    Walks <- MCWalks
    Parents <- MCParents
    Evaluation <- MemoryTruth
INVARIANTS
    VerdictHasNoOrder
    NoRequestMeetsMisconfiguration
    OwnRequestsAreAnswered
    OffsetPagesAreTrue
    ListsAreAsDocumented
PROPERTIES
    WalksKeepThePromise
CHECK_DEADLOCK FALSE
