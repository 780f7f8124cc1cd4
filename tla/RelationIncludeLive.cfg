CONSTANTS
    users = users
    posts = posts
    teams = teams
    Requests = {1, 2, 3}
    Kinds = {"list"}
    Resources = {users, posts, teams}
    Relations <- MCChain
    Pools = {users, posts, teams}
    PoolOf <- MCOwnPool
    Capacity <- MCOneSlot
    Keys = {}
    Null = Null
    PageSize = 1
    MaxItems = 1
    MaxRows = 1
    MaxWrites = 0
SPECIFICATION FairSpec
INVARIANTS
    TypeOK
    SomebodyCanMove
PROPERTIES
    EveryRequestIsAnswered
