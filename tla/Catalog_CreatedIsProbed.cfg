SPECIFICATION Spec
CONSTANTS
    db = db
    web = web
    extra = extra
    noId = noId
    r1 = r1
    r2 = r2
    Ids <- MCIds
    Minted = {extra}
    DefaultId <- MCDefaultId
    NoId = noId
    NoTarget = NoTarget
    Files <- MCFiles
    Posts <- MCPosts
    Changes <- MCChanges
    Requests = {r1, r2}
    Queries <- MCQueries
    StartLimit = 2
    MaxWrites = 3
    MaxStarts = 2
CHECK_DEADLOCK FALSE
INVARIANTS
    CreatedIsProbed
