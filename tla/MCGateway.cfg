SPECIFICATION GatewaySpec
CONSTANTS
    Clients = {c1, c2}
    maxSessions = 1
    BufSize = 2
    MaxWork = 5
    Requests = {r1, r2}
    NoRequest = NoRequest
    maxOutputBytes = 2
    MaxTotal = 3
    Sandboxes = {s1}
    ToolClients = {c1, c2}
    minPort = 1
    maxPort = 2
    MaxTools = 2
CHECK_DEADLOCK FALSE
INVARIANTS
    SessionsSafe
    RunsSafe
    ToolsSafe

    
