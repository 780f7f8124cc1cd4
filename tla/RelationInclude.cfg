CONSTANTS
    users = users
    posts = posts
    teams = teams
    Requests = {1}
    Kinds = {"list", "read"}
    Resources = {users, posts, teams}
    Relations <- MCAcyclic
    Pools = {users, posts, teams}
    PoolOf <- MCOwnPool
    Capacity <- MCOneSlot
    Keys = {11, 12}
    Null = Null
    PageSize = 2
    MaxItems = 1
    MaxRows = 3
    MaxWrites = 1
SPECIFICATION Spec
PROPERTIES
    NeverTruncated
    RefusedOnlyOverBound
