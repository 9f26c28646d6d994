SPECIFICATION FairLifecycleSpec
CONSTANTS
  Tenants = {t1}
  Nodes = {n1, n2}
  Requests <- MCRequests
  Specs <- MCSpecs
  NoTenant = NoTenant
  Unparsable = Unparsable
  Minute = 2
  Day = 3
  MaxClock = 0
  Keys = {k1}
  SandboxSpecs <- MCSandboxSpecs
  ExternalTransitions <- MCAllMoves
  maxRetryCount = 2
  NoNode = NoNode
  Absent = Absent
  MaxTotal = 2
CHECK_DEADLOCK FALSE
INVARIANTS
    LifecycleSafe
PROPERTIES
    LifecycleProgress
