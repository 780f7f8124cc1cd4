CONSTANTS
    users = users
    posts = posts
    teams = teams
    Requests = {1, 2}
    Kinds = {"list", "read"}
    Resources = {users, posts, teams}
    Relations <- MCCyclic
    Pools = {users, posts, teams}
    PoolOf <- MCOwnPool
    Capacity <- MCOneSlot
    Keys = {11}
    Null = Null
    PageSize = 1
    MaxItems = 1
    MaxRows = 0
    MaxWrites = 0
SPECIFICATION FairSpec
PROPERTIES
    EveryRequestIsAnswered
CHECK_DEADLOCK FALSE
