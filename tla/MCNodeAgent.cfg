SPECIFICATION FairAgentSpec
CONSTANTS
    k1 = k1
    k2 = k2
    n1 = n1
    n2 = n2
    Keys = {k1, k2}
    Names = {n1, n2}
    NameOf <- MCNameOf
    Quotas = {k1}
    MaxObjects = 2
    MaxDeletes = 1
CHECK_DEADLOCK FALSE
INVARIANTS
    AgentSafe
PROPERTIES
    DeletionEnds
