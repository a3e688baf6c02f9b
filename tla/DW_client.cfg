SPECIFICATION FairSpec
CONSTANTS
    client = client
    api = api
    db = db
    dbClient = dbClient
    scale = scale
    Thread = {client}
    Obj = {db, dbClient, scale}
    Static = {db}
    Select = {"events", "index", "tag", "range"}
    Change = {"delete"}
    Calls <- ClientCalls
    Handle = {1, 2, 3, 4}
    MaxFails = 1
    MaxOutages = 1
    None = None
INVARIANTS
    OwnRow
    HurtByResetOnly
    LeakBound
    OneLost
PROPERTIES
    Heals
CHECK_DEADLOCK FALSE
