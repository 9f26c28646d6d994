SPECIFICATION RecordsSpec
CONSTANTS
    Trees = {t1, t2}
    SharedTrees = {t1}
    TreeFiles = {f1, f2}
    SnapInodes = {d1, d2, d3, d4, d5, d6, d7, d8}
    NoFile = NoFile
    Snaps = {s1}
    Restorers = {r1}
    MaxVersion = 2
    CacheBoxes = {b1, b2}
    CacheNodes = {n1, n2}
    Unbound = Unbound
    Gone = Gone
    MaxTouches = 1
    PlacedBoxes = {b1, b2, b3}
    PlaceSpecs <- MCPlaceSpecs
    NodeOrder <- MCNodeOrder
    labels <- MCLabels
    allocatable <- MCAllocatable
    Unset = Unset
    Unreadable = Unreadable
    Nowhere = Nowhere
    Reasons = {1, 2}
    Involved = {3, 4}
    maxEvents = 3
    MaxRecorded = 5
    x1 = x1
    x2 = x2
    Tenants = {x1, x2}
    IsolationNodes = {n1}
    NoTenant = NoTenant
    TenantSpecs <- MCTenantSpecs
    Callers = {c1, c2}
    NoCaller = NoCaller
    MaxVNI = 3
    EgressRequests = {1, 2}
    EgressBoxes = {"s"}
    EgressHosts <- MCEgressHosts
    PrivateHosts <- MCPrivateHosts
    EgressPolicies <- MCEgressPolicies
    NoPolicy = NoPolicy
    AuditSize = 1
    MaxPolicyChanges = 2
    TemplateNames = {t1}
    ApiRequests = {11, 12}
    SandboxNames = {1, 2}
    Spare = 0
    MaxArrays = 3
    NetBoxes = {b1, b2}
    Broadcast = 3
    GPUDevices = 3
    MaxSetups = 4
    LogClients = {1, 2}
    LogBuffer = 1
    MaxFile = 1
    maxEntries = 2
    Flushers = {11, 12}
    OneFlusher = TRUE
    MaxLines = 3
    MaxFiles = 2
    CreateCalls = {c1, c2, c3}
    Stoppers = {s1}
    Containers = {i1}
    NoCreator = NoCreator
    maxConcurrentOps = 2
    Allocatable = 2
    Amounts = {1, 2}
    retryCount = 2
    MaxBeats = 2
    MaxAllocations = 1
    successThreshold = 2
    failureThreshold = 3
    MaxProbes = 9
    Rates = {0, 1, 3, 5, 9, 15}
    Kilo = 2
    Sessions = {s1, s2, s3}
    Ids = {"i", "j"}
    PathParts = {"a", "..", "..x"}
    ToolServers = {"x"}
    HttpCalls = {h1}
    Registrars = {g1}
    Stdin = Stdin
    NoRegistrar = NoRegistrar
    MaxStdinLines = 2
    Files = {a, b}
    Values = {v1, v2}
    Absent = Absent
    Torn = Torn
    Hole = Hole
    Inodes = {i1, i2, i3, i4}
    NoInode = NoInode
    FileClients = {c1, c2}
    OneWriter = TRUE
    MaxFileOps = 2
CHECK_DEADLOCK FALSE
INVARIANTS
    SnapshotsSafe
    CacheSafe
    
    EventsSafe
    IsolationSafe
    EgressSafe
    
    DevicesSafe
    
    ExecutorSafe
    
    HubSafe
    

    
