SPECIFICATION LoopsSpec
CONSTANTS
    Instances = {i1, i2}
    MaxRevision = 2
    Boxes = {b1}
    Hosts = {h1}
    Movers = {m1, m2}
    NoRecord = NoRecord
    MaxPuts = 1
    Reloaders = {q1, q2}
    MaxConfig = 3
    BadConfigs = {2}
    Objects = {o1}
    Workers = {w1, w2}
    maxRetries = 1
    Namespaced = TRUE
    NoObject = NoObject
    MaxChanges = 2
    ContainerIds = {p1, k1}
    Pods = {p1}
    NoId = NoId
    PoolKeys = {k1}
    TargetSize = 2
    MinSize = 1
    MaxSize = 1
    ScaleUpThreshold = 60
    TemplateHandles = {1, 2, 3, 4, 5}
    MaxPools = 1
    MaxCreators = 2
    NoHandle = NoHandle
    Refs = {i1, i2}
    Pullers = {c1, c2, c3}
    NoPuller = NoPuller
CHECK_DEADLOCK FALSE
INVARIANTS
    OneLeader
    RecoverySafe
    
    MarkedIsCurrent
    CRISafe
    TemplatesSafe
    ImagesSafe
PROPERTIES
    
    WorkEnds
