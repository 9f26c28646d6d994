SPECIFICATION ClientSpec
CONSTANTS
  Tenants = {t1}
  Nodes = {n1, n2}
  Sandboxes = {s1, s2}
  Requests <- MCRequests
  Specs <- MCSpecs
  NoTenant = NoTenant
  Unparsable = Unparsable
  Minute = 2
  Day = 3
  MaxClock = 4
  MaxChanges = 2
  MaxReservations = 1
  MaxTotal = 2
SYMMETRY MCSymmetry
CHECK_DEADLOCK FALSE
INVARIANTS
    TenantSafe
    
