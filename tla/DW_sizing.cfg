SPECIFICATION Spec
CONSTANTS
    client = client
    api = api
    db = db
    dbClient = dbClient
    scale = scale
    Thread = {client, api}
    Obj = {db, dbClient}
    Static = {db}
    Select = {"status", "index", "count"}
    Change = {}
    Calls <- SizingCalls
    Handle = {1, 2, 3, 4}
    MaxFails = 0
    MaxOutages = 0
    None = None
INVARIANTS
    OwnRow
CHECK_DEADLOCK FALSE
